---------------------------- MODULE Spec2Model ----------------------------
(***************************************************************************)
(* Model of scripts/iterate-client.js (meltdown-game): the console error   *)
(* tracker, the action choreographer and the iteration controller; and of  *)
(* the game's SpawnSystem, with the enemies and fragments it drives.       *)
(*                                                                         *)
(* The specifications that share the module:                               *)
(*   SpecTracker  a ConsoleErrorTracker under any ingest/drain sequence    *)
(*   SpecActions  runActions over a step list, one browser command a step  *)
(*   SpecLocate   getCanvasHandle over the canvases of a document          *)
(*   SpecCapture  captureScreenshot over the outcomes of its commands      *)
(*   SpecArgs     parseArgs and loadActions, up to the browser launch       *)
(*   SpecShim     the virtual time shim under any use of the page's timers  *)
(*   Spec         main(): launch, prepare, boot check, iteration loop,     *)
(*                teardown, with the page's listeners firing in between    *)
(*   SpecLive     main() with every awaited command eventually completing  *)
(*   SpecDifficulty  the SpawnSystem's acceleration timer, tick after tick *)
(*   SpecGame     a play of the game: spawns, collections, slowdowns       *)
(*   SpecBus      EventBus.emit over listeners that throw, add and remove  *)
(*   SpecSession  plays, game overs and restarts, with mute and the music  *)
(***************************************************************************)
EXTENDS Integers, Sequences, FiniteSets, TLC

VARIABLES
    \* ---- ConsoleErrorTracker instance (`errors` in main) ----
    errors,         \* [_seen |-> set of keys, _errors |-> sequence of records]
    \* ---- history of a tracker driven directly (SpecTracker) ----
    lastOp,         \* "new" | "ingest" | "drain": the most recent call
    prevOp,         \* the call before it
    calls,          \* the arguments of the ingest calls since the previous drain
    lastOut,        \* the batch the most recent drain() returned
    firstArrivals,  \* every distinct record ingested, in order of first ingest
    delivered,      \* concatenation of every batch drain() has returned
    \* ---- main() ----
    pc,             \* position of main(): the command it is about to await
    args,           \* the run configuration parseArgs returns
    browser,        \* "none" | "open" | "closed"
    listening,      \* the console/pageerror listeners are attached
    shimmed,        \* the virtual time shim is registered as init script
    canvas,         \* main's `canvas`: "null" | "handle"
    i,              \* the loop index
    hadErrors,      \* main's `hadErrors`
    files,          \* artifacts written: set of [kind, idx, content]
    exitCode,       \* the status passed to process.exit (read when pc = "exited")
    threw,          \* an awaited command rejected and main().catch ran
    warnings,       \* the console.warn lines of the prepare steps printed so far
    textState,      \* the loop body's `textState`, from its evaluate to the body's end
    pageGlobals,    \* what the page exposed when textState was evaluated
    \* ---- history of the page's emissions (main) ----
    emittedBefore,  \* error records emitted up to the previous drain
    emittedSince,   \* error records emitted since the previous drain
    lastDrain,      \* [at, out, fresh] of the most recent drain in main
    \* ---- runActions(page, canvas, steps) ----
    steps,          \* the step list
    rcanvas,        \* the canvas argument: "null" | "handle"
    sidx,           \* 1-based index of the step being run
    phase,          \* "idle" | "press" | "advance" | "release" | "wait" | "done" | "threw"
    todo,           \* buttons of the Set still to visit in the current for-of
    f,              \* the frame counter of the advance loop
    log,            \* every input command issued: sequence of event records
    \* ---- getCanvasHandle(page) ----
    loc,            \* [canvases, k, best, bestArea, ret]: the in-page loop
    \* ---- captureScreenshot(page, canvas, outPath) ----
    shot,           \* the page's facts, the position, `buffer`, the attempts so far
    \* ---- parseArgs(argv), loadActions(args), the start of main() ----
    cli,            \* [pc, argv, i, args, steps, reads, dirMade, launched, exitCode, threw]
    \* ---- makeVirtualTimeShim(): the script's state in the page ----
    shim,           \* [tasks, pending, polling, advanceTime, assigned]
    \* ---- SpawnSystem, gameState and the enemies of a GameScene ----
    game,           \* the fields of the three, the pending timers, a short history
    \* ---- EventBus ----
    bus,            \* [listeners, calls, run, ...]: the listener array and an emit in progress
    \* ---- gameState, the scenes and the audio bridge over plays and restarts ----
    gameState,      \* the GameState singleton
    app             \* the scene shown, GameOverScene's flags, AudioManager, pending timeouts

trackerVars == <<errors>>
trackerHist == <<lastOp, prevOp, calls, lastOut, firstArrivals, delivered>>
mainVars    == <<pc, args, browser, listening, shimmed, canvas, i, hadErrors,
                 files, exitCode, threw, warnings, textState, pageGlobals>>
mainHist    == <<emittedBefore, emittedSince, lastDrain>>
actVars     == <<steps, rcanvas, sidx, phase, todo, f, log>>
appVars     == <<bus, gameState, app>>
partVars    == <<loc, shot, cli, shim, game, appVars>>
vars == <<trackerVars, trackerHist, mainVars, mainHist, actVars, partVars>>

-----------------------------------------------------------------------------
(* Sequence helpers *)

Range(s) == {s[k] : k \in DOMAIN s}

NoDup(s) == \A a, b \in DOMAIN s : s[a] = s[b] => a = b

Count(x, s) == Cardinality({k \in DOMAIN s : s[k] = x})

-----------------------------------------------------------------------------
(* Error records and their keys *)

\* The texts a console message or an uncaught exception may carry.
Texts == {"boom", "oops"}

\* The records the two listeners build: {type: 'console.error', text} and
\* {type: 'pageerror', text}.
ErrorRecords == [type : {"console.error", "pageerror"}, text : Texts]

\* Mutant: the key is the text alone.
JSONstringify_TextOnly(err) == <<"\"", err.text, "\"">>

\* JSON.stringify(err) of a {type, text} object: the properties in insertion
\* order, each as "name":value, as a sequence of tokens.
JSONstringify(err) ==
    <<"{", "\"type\":", "\"", err.type, "\"", ",",
           "\"text\":", "\"", err.text, "\"", "}">>

-----------------------------------------------------------------------------
(* class ConsoleErrorTracker *)

\* constructor()
NewTracker == [_seen |-> {}, _errors |-> <<>>]

\* Mutant: ingest without the seen-set check.
ingest_NoDedup(t, err) ==
    [_seen |-> t._seen \cup {JSONstringify(err)}, _errors |-> Append(t._errors, err)]

\* ingest(err): the tracker after the call.
ingest(t, err) ==
    LET key == JSONstringify(err) IN
    IF key \in t._seen
    THEN t
    ELSE [_seen |-> t._seen \cup {key}, _errors |-> Append(t._errors, err)]

\* Mutant: drain returns the batch and keeps it.
drain_NoClear(t) == [out |-> t._errors, tracker |-> t]

\* Mutant: drain also forgets the keys of the batch it returns.
drain_Forget(t) ==
    [out |-> t._errors,
     tracker |-> [_seen |-> t._seen \ {JSONstringify(t._errors[k]) : k \in DOMAIN t._errors},
                  _errors |-> <<>>]]

\* drain(): the batch returned and the tracker after the call.
drain(t) == [out |-> t._errors, tracker |-> [_seen |-> t._seen, _errors |-> <<>>]]

\* get count()
count(t) == Len(t._errors)

RECURSIVE ingestTimes(_, _, _)
\* n calls of ingest(err) in sequence.
ingestTimes(t, err, n) == IF n = 0 THEN t ELSE ingestTimes(ingest(t, err), err, n - 1)

-----------------------------------------------------------------------------
(* Values the variables of a part hold while another part is being run *)

TrackerHistIdle ==
    /\ lastOp = "new" /\ prevOp = "new" /\ calls = <<>> /\ lastOut = <<>>
    /\ firstArrivals = <<>> /\ delivered = <<>>

MainIdle ==
    /\ pc = "off"
    /\ args = [url |-> FALSE, iterations |-> 0, waitForGame |-> FALSE,
               clickSelector |-> FALSE]
    /\ browser = "none"
    /\ listening = FALSE /\ shimmed = FALSE /\ canvas = "null" /\ i = 0
    /\ hadErrors = FALSE /\ files = {} /\ exitCode = 0 /\ threw = FALSE
    /\ warnings = {}
    /\ textState = [kind |-> "unset", text |-> ""]
    /\ pageGlobals = [render_game_to_text |-> "unset", GAME_STATE |-> "unset"]
    /\ emittedBefore = {} /\ emittedSince = {}
    /\ lastDrain = [at |-> "none", idx |-> 0, out |-> <<>>, since |-> {}, fresh |-> {}]

ActIdle ==
    /\ steps = <<>> /\ rcanvas = "null" /\ sidx = 0 /\ phase = "idle"
    /\ todo = <<>> /\ f = 0 /\ log = <<>>

LocIdle ==
    loc = [canvases |-> <<>>, k |-> 0, best |-> 0, bestArea |-> 0, ret |-> "off"]

ShotIdle == shot = [pc |-> "off"]

CliIdle == cli = [pc |-> "off"]

ShimIdle ==
    shim = [tasks |-> <<>>, pending |-> {}, polling |-> "none",
            advanceTime |-> "shim", assigned |-> FALSE]

GameIdle == game = [pc |-> "off"]

BusIdle == bus = [pc |-> "off"]

SessionIdle == gameState = [pc |-> "off"] /\ app = [pc |-> "off"]

AppIdle == BusIdle /\ SessionIdle

PartsIdle == LocIdle /\ ShotIdle /\ CliIdle /\ ShimIdle /\ GameIdle /\ AppIdle

-----------------------------------------------------------------------------
(* SpecTracker: one ConsoleErrorTracker, any sequence of ingest and drain *)

\* Most ingest calls modelled between two drains.
MaxCalls == 3

TrackerInit ==
    /\ errors = NewTracker
    /\ TrackerHistIdle /\ MainIdle /\ ActIdle /\ PartsIdle

\* tracker.ingest(err)
TrackerIngest(err) ==
    /\ Len(calls) < MaxCalls
    /\ errors' = ingest(errors, err)
    /\ calls' = Append(calls, err)
    /\ firstArrivals' = IF err \in Range(firstArrivals)
                        THEN firstArrivals ELSE Append(firstArrivals, err)
    /\ prevOp' = lastOp /\ lastOp' = "ingest"
    /\ UNCHANGED <<lastOut, delivered, mainVars, mainHist, actVars, partVars>>

\* tracker.drain()
TrackerDrain ==
    /\ LET r == drain(errors) IN
        /\ errors' = r.tracker
        /\ lastOut' = r.out
        /\ delivered' = delivered \o r.out
    /\ calls' = <<>>
    /\ prevOp' = lastOp /\ lastOp' = "drain"
    /\ UNCHANGED <<firstArrivals, mainVars, mainHist, actVars, partVars>>

TrackerNext ==
    \/ \E err \in ErrorRecords : TrackerIngest(err)
    \/ TrackerDrain

SpecTracker == TrackerInit /\ [][TrackerNext]_vars


\* Largest number of repeated ingests of one record tried by C5.
MaxRepeat == 3

\* C5: dedup idempotence. In every reachable tracker state and for every
\* record e, ingesting e twice leaves the tracker exactly as ingesting it once
\* does and drains to the same batch; and after any number (1..MaxRepeat) of
\* ingests of e the next drain holds exactly one copy of e, unless e was
\* already handed out by an earlier drain, when it holds none.
C5_DedupIdempotent ==
    \A e \in ErrorRecords :
        LET once  == ingest(errors, e)
            twice == ingest(once, e)
        IN  /\ twice = once
            /\ drain(twice).out = drain(once).out
            /\ \A n \in 1..MaxRepeat :
                  Count(e, drain(ingestTimes(errors, e, n)).out)
                    = IF e \in Range(delivered) THEN 0 ELSE 1
            /\ e \in Range(calls) /\ e \notin Range(delivered)
                  => Count(e, drain(errors).out) = 1

\* C5 witness: the same record was just ingested twice in a row and the
\* pending batch holds one copy of it.
C5_Witness ==
    /\ lastOp = "ingest" /\ prevOp = "ingest" /\ Len(calls) >= 2
    /\ calls[Len(calls)] = calls[Len(calls) - 1]
    /\ Count(calls[Len(calls)], errors._errors) = 1

\* C6: drain exclusivity. A drain() that directly follows a drain() returns
\* the empty batch; no step removes a key from the seen-set (so its size
\* never decreases), and a drain() leaves the seen-set as it was.
C6_DrainExclusive ==
    [][ /\ errors._seen \subseteq errors'._seen
        /\ Cardinality(errors'._seen) >= Cardinality(errors._seen)
        /\ (lastOp' = "drain" /\ calls' = <<>> /\ prevOp' = lastOp)
              => /\ errors'._seen = errors._seen
                 /\ (lastOp = "drain" => lastOut' = <<>>)
      ]_vars

\* C6 witness: two drains in a row, the second empty, with keys remembered.
C6_Witness ==
    /\ lastOp = "drain" /\ prevOp = "drain" /\ lastOut = <<>>
    /\ errors._seen # {} /\ delivered # <<>>

\* C7: exactly-once delivery. The batches handed out so far followed by the
\* pending batch are exactly the distinct records in order of first ingest:
\* no record is handed out twice or out of order, none resurfaces, and right
\* after a drain() nothing is pending, so each record left with the first
\* drain that followed its first ingest.
C7_ExactlyOnce ==
    /\ delivered \o errors._errors = firstArrivals
    /\ NoDup(delivered \o errors._errors)
    /\ lastOp = "drain" => /\ errors._errors = <<>>
                           /\ delivered = firstArrivals
                           /\ \A e \in Range(calls) : e \in Range(delivered)

\* C7 witness: two records were delivered by different drains, then a seen
\* record was ingested again and the drain after it returned nothing.
C7_Witness ==
    /\ lastOp = "drain" /\ prevOp = "ingest" /\ lastOut = <<>>
    /\ Len(delivered) >= 2


-----------------------------------------------------------------------------
(* Action choreography: runActions(page, canvas, steps) *)

\* const KEY_MAP
KEY_MAP ==
    [up |-> "ArrowUp", down |-> "ArrowDown", left |-> "ArrowLeft",
     right |-> "ArrowRight", enter |-> "Enter", space |-> "Space",
     escape |-> "Escape", tab |-> "Tab", w |-> "KeyW", a |-> "KeyA",
     s |-> "KeyS", d |-> "KeyD", f |-> "KeyF", m |-> "KeyM"]

\* KEY_MAP[button] || button
keyOf(button) == IF button \in DOMAIN KEY_MAP THEN KEY_MAP[button] ELSE button

\* button === 'left_mouse_button' || button === 'right_mouse_button'
isMouse(button) == button \in {"left_mouse_button", "right_mouse_button"}

\* button === 'left_mouse_button' ? 'left' : 'right'
mouseButtonOf(button) == IF button = "left_mouse_button" THEN "left" ELSE "right"

RECURSIVE dedup(_, _)
\* The elements of array arr not in `have`, first occurrences only, in order.
dedup(arr, have) ==
    IF arr = <<>> THEN <<>>
    ELSE IF Head(arr) \in have THEN dedup(Tail(arr), have)
         ELSE <<Head(arr)>> \o dedup(Tail(arr), have \cup {Head(arr)})

\* new Set(step.buttons || []), as the sequence its for-of visits.
buttonsOf(step) == IF "buttons" \in DOMAIN step THEN dedup(step.buttons, {}) ELSE <<>>

\* Mutant: a missing frames property means no frame at all.
framesOf_NoDefault(step) == IF "frames" \in DOMAIN step THEN step.frames ELSE 0

\* step.frames || 1
framesOf(step) ==
    IF "frames" \in DOMAIN step /\ step.frames # 0 THEN step.frames ELSE 1

\* The bounding box a visible canvas reports.
BBox == [x |-> 8, y |-> 16, width |-> 960, height |-> 540]

\* typeof step.mouse_x === 'number' ? step.mouse_x : bbox.width / 2
mouseX(step, bbox) ==
    IF "mouse_x" \in DOMAIN step THEN step.mouse_x ELSE bbox.width \div 2

\* typeof step.mouse_y === 'number' ? step.mouse_y : bbox.height / 2
mouseY(step, bbox) ==
    IF "mouse_y" \in DOMAIN step THEN step.mouse_y ELSE bbox.height \div 2

\* One command issued to the page while step `k` runs.
Event(k, kind, key, x, y) == [step |-> k, kind |-> kind, key |-> key, x |-> x, y |-> y]

\* Largest frames value of a modelled step.
MaxFrames == 2

\* Longest step list modelled.
MaxSteps == 2

\* The modelled ActionStep objects: a mapped key with frames omitted; a key
\* and a mouse button held 1..MaxFrames frames and followed by a wait; the
\* same two buttons in the other order; the other mouse button with an
\* unmapped key and a repeated name; a click at given coordinates; a step
\* with no buttons at all.
StepSet ==
    { [buttons |-> <<"space">>],
      [buttons |-> <<"left_mouse_button", "a">>],
      [buttons |-> <<"right_mouse_button", "KeyZ", "a", "a">>, frames |-> 2],
      [buttons |-> <<"left_mouse_button">>, frames |-> 2,
       mouse_x |-> 480, mouse_y |-> 270],
      [frames |-> 1] }
      \cup { [buttons |-> <<"a", "left_mouse_button">>, frames |-> n, wait_ms |-> 50] :
               n \in 1..MaxFrames }

StepLists == UNION { [1..n -> StepSet] : n \in 0..MaxSteps }

ActInit ==
    /\ steps \in StepLists
    /\ rcanvas \in {"null", "handle"}
    /\ sidx = 0 /\ phase = "loop" /\ todo = <<>> /\ f = 0 /\ log = <<>>
    /\ errors = NewTracker /\ TrackerHistIdle /\ MainIdle /\ PartsIdle

ActFrame == UNCHANGED <<trackerVars, trackerHist, mainVars, mainHist, partVars>>

\* for (const step of steps): the next step, or the end of the list.
runActions_NextStep ==
    /\ phase = "loop"
    /\ IF sidx < Len(steps)
       THEN /\ sidx' = sidx + 1
            /\ todo' = buttonsOf(steps[sidx + 1])
            /\ phase' = "press"
       ELSE /\ phase' = "done"
            /\ UNCHANGED <<sidx, todo>>
    /\ UNCHANGED <<steps, rcanvas, f, log>>
    /\ ActFrame

\* Mutant: keyboard.press (down then up) where keyboard.down is meant.
runActions_PressKey_Tap ==
    /\ phase = "press" /\ todo # <<>> /\ ~isMouse(Head(todo))
    /\ log' = log \o <<Event(sidx, "keyboard.down", keyOf(Head(todo)), 0, 0),
                        Event(sidx, "keyboard.up", keyOf(Head(todo)), 0, 0)>>
    /\ todo' = Tail(todo)
    /\ UNCHANGED <<steps, rcanvas, sidx, phase, f>>
    /\ ActFrame

\* Press loop, keyboard branch: await page.keyboard.down(key).
runActions_PressKey ==
    /\ phase = "press" /\ todo # <<>> /\ ~isMouse(Head(todo))
    /\ log' = Append(log, Event(sidx, "keyboard.down", keyOf(Head(todo)), 0, 0))
    /\ todo' = Tail(todo)
    /\ UNCHANGED <<steps, rcanvas, sidx, phase, f>>
    /\ ActFrame

\* Press loop, mouse branch: bbox = canvas ? await canvas.boundingBox() : null;
\* if (!bbox) continue. A canvas handle reports a box or, when the element is
\* not visible, null.
runActions_PressMouseBBox ==
    /\ phase = "press" /\ todo # <<>> /\ isMouse(Head(todo))
    /\ \E hasBox \in (IF rcanvas = "handle" THEN BOOLEAN ELSE {FALSE}) :
          IF hasBox
          THEN phase' = "move" /\ UNCHANGED todo
          ELSE todo' = Tail(todo) /\ UNCHANGED phase
    /\ UNCHANGED <<steps, rcanvas, sidx, f, log>>
    /\ ActFrame

\* await page.mouse.move(bbox.x + x, bbox.y + y)
runActions_PressMouseMove ==
    /\ phase = "move"
    /\ log' = Append(log, Event(sidx, "mouse.move", "",
                                BBox.x + mouseX(steps[sidx], BBox),
                                BBox.y + mouseY(steps[sidx], BBox)))
    /\ phase' = "down"
    /\ UNCHANGED <<steps, rcanvas, sidx, todo, f>>
    /\ ActFrame

\* await page.mouse.down({ button })
runActions_PressMouseDown ==
    /\ phase = "down"
    /\ log' = Append(log, Event(sidx, "mouse.down", mouseButtonOf(Head(todo)), 0, 0))
    /\ todo' = Tail(todo)
    /\ phase' = "press"
    /\ UNCHANGED <<steps, rcanvas, sidx, f>>
    /\ ActFrame

\* The press loop is over: const frames = step.frames || 1; f = 0.
runActions_PressDone ==
    /\ phase = "press" /\ todo = <<>>
    /\ f' = 0
    /\ phase' = "advance"
    /\ UNCHANGED <<steps, rcanvas, sidx, todo, log>>
    /\ ActFrame

\* for (f = 0; f < frames; f++) await page.evaluate(... advanceTime(1000 / 60))
runActions_Advance ==
    /\ phase = "advance" /\ f < framesOf(steps[sidx])
    /\ log' = Append(log, Event(sidx, "evaluate", "advanceTime", 0, 0))
    /\ f' = f + 1
    /\ UNCHANGED <<steps, rcanvas, sidx, phase, todo>>
    /\ ActFrame

\* The frame loop is over: the release loop starts over the same Set.
runActions_AdvanceDone ==
    /\ phase = "advance" /\ ~(f < framesOf(steps[sidx]))
    /\ todo' = buttonsOf(steps[sidx])
    /\ phase' = "release"
    /\ UNCHANGED <<steps, rcanvas, sidx, f, log>>
    /\ ActFrame

\* Release loop: await page.mouse.up({ button }) or await page.keyboard.up(key).
runActions_Release ==
    /\ phase = "release" /\ todo # <<>>
    /\ log' = Append(log,
                 IF isMouse(Head(todo))
                 THEN Event(sidx, "mouse.up", mouseButtonOf(Head(todo)), 0, 0)
                 ELSE Event(sidx, "keyboard.up", keyOf(Head(todo)), 0, 0))
    /\ todo' = Tail(todo)
    /\ UNCHANGED <<steps, rcanvas, sidx, phase, f>>
    /\ ActFrame

\* The release loop is over: if (step.wait_ms) sleep, else the next step.
runActions_ReleaseDone ==
    /\ phase = "release" /\ todo = <<>>
    /\ phase' = IF "wait_ms" \in DOMAIN steps[sidx] /\ steps[sidx].wait_ms # 0
                THEN "wait" ELSE "loop"
    /\ UNCHANGED <<steps, rcanvas, sidx, todo, f, log>>
    /\ ActFrame

\* await sleep(step.wait_ms)
runActions_Wait ==
    /\ phase = "wait"
    /\ log' = Append(log, Event(sidx, "sleep", "", steps[sidx].wait_ms, 0))
    /\ phase' = "loop"
    /\ UNCHANGED <<steps, rcanvas, sidx, todo, f>>
    /\ ActFrame

\* The browser command runActions is about to await rejects (closed page,
\* crashed session): the exception leaves runActions at once.
runActions_Throw ==
    /\ \/ phase = "press" /\ todo # <<>> /\ (isMouse(Head(todo)) => rcanvas = "handle")
       \/ phase \in {"move", "down"}
       \/ phase = "advance" /\ f < framesOf(steps[sidx])
       \/ phase = "release" /\ todo # <<>>
    /\ phase' = "threw"
    /\ UNCHANGED <<steps, rcanvas, sidx, todo, f, log>>
    /\ ActFrame

ActNext ==
    \/ runActions_NextStep
    \/ runActions_PressKey
    \/ runActions_PressMouseBBox
    \/ runActions_PressMouseMove
    \/ runActions_PressMouseDown
    \/ runActions_PressDone
    \/ runActions_Advance
    \/ runActions_AdvanceDone
    \/ runActions_Release
    \/ runActions_ReleaseDone
    \/ runActions_Wait
    \/ runActions_Throw

SpecActions == ActInit /\ [][ActNext]_vars


\* The commands of the three phases of a step.
PressKinds   == {"keyboard.down", "mouse.move", "mouse.down"}
ReleaseKinds == {"keyboard.up", "mouse.up"}

\* Position of a command in the order press, frame advance, release, wait.
Rank(e) ==
    IF e.kind \in PressKinds THEN 1
    ELSE IF e.kind = "evaluate" THEN 2
    ELSE IF e.kind \in ReleaseKinds THEN 3
    ELSE 4

\* The commands of step k of the given kinds, in the order issued.
EventsOf(k, kinds) == SelectSeq(log, LAMBDA e : e.step = k /\ e.kind \in kinds)

\* The device and translated button of a down or up command.
Form(e) ==
    [device |-> IF e.kind \in {"mouse.down", "mouse.up"} THEN "mouse" ELSE "keyboard",
     button |-> e.key]

\* The frame loop of step k has run to its end.
StepAdvanced(k) ==
    \/ k < sidx
    \/ k = sidx /\ phase \in {"release", "wait", "loop", "done"}

\* The release loop of step k has run to its end.
StepReleased(k) ==
    \/ k < sidx
    \/ k = sidx /\ phase \in {"wait", "loop", "done"}

\* C8: choreography ordering. For any two commands issued, the earlier one
\* belongs to an earlier step, or to the same step and to the same or an
\* earlier phase in the order press, frame advance, release, wait: within a
\* step every press precedes every frame advance and every frame advance
\* precedes every release, whatever the order of the button set, and the
\* releases and the wait of step k precede every press of step k+1.
C8_Ordering ==
    \A a, b \in DOMAIN log :
        a < b => \/ log[a].step < log[b].step
                 \/ log[a].step = log[b].step /\ Rank(log[a]) <= Rank(log[b])

\* C8 witness: a finished two-step run whose first step pressed a key and a
\* mouse button, advanced two frames, released and waited, before the second
\* step pressed.
C8_Witness ==
    /\ phase = "done" /\ Len(steps) = 2
    /\ \E a, b, c, d \in DOMAIN log :
          /\ log[a].step = 1 /\ log[a].kind = "mouse.down"
          /\ log[b].step = 1 /\ log[b].kind = "keyboard.up"
          /\ log[c].step = 1 /\ log[c].kind = "evaluate"
          /\ log[d].step = 2 /\ log[d].kind = "keyboard.down"
    /\ Len(EventsOf(1, {"evaluate"})) = 2
    /\ Len(EventsOf(1, {"sleep"})) = 1

\* C9 (as claimed): once the release loop of a step is over, the buttons it
\* released are exactly the buttons the press loop pressed, each in the same
\* translated form, for every state of the canvas.
C9_ReleaseMatchesPress ==
    \A k \in 1..Len(steps) :
        StepReleased(k) =>
            {Form(e) : e \in Range(EventsOf(k, {"keyboard.up", "mouse.up"}))}
              = {Form(e) : e \in Range(EventsOf(k, {"keyboard.down", "mouse.down"}))}

\* C10: frame count. Once the frame loop of a step is over, the number of
\* frame-advance round-trips of the step is its frames value, and 1 when the
\* step has no frames property; all of them were issued after the last press
\* and before the first release of the step. A list [{buttons: ["space"]}]
\* run to its end issued exactly: Space down, one advance, Space up.
C10_FrameCount ==
    /\ \A k \in 1..Len(steps) :
          StepAdvanced(k) =>
            /\ Len(EventsOf(k, {"evaluate"}))
                 = IF "frames" \in DOMAIN steps[k] THEN steps[k].frames ELSE 1
            /\ \A a, b \in DOMAIN log :
                  (log[a].step = k /\ log[b].step = k /\ log[b].kind = "evaluate") =>
                     /\ log[a].kind \in PressKinds => a < b
                     /\ log[a].kind \in ReleaseKinds => b < a
    /\ (steps = <<[buttons |-> <<"space">>]>> /\ phase = "done") =>
          log = << Event(1, "keyboard.down", "Space", 0, 0),
                   Event(1, "evaluate", "advanceTime", 0, 0),
                   Event(1, "keyboard.up", "Space", 0, 0) >>

\* C10 witness: the list [{buttons: ["space"]}] has run to its end.
C10_Witness ==
    /\ steps = <<[buttons |-> <<"space">>]>> /\ phase = "done"
    /\ Len(EventsOf(1, {"evaluate"})) = 1


-----------------------------------------------------------------------------
(* Canvas locator: getCanvasHandle(page) *)

\* Most canvases in a modelled document.
MaxCanvases == 4

\* The canvases a modelled document can hold: backing-store size (width,
\* height) and laid-out size (clientWidth, clientHeight). One has no size at
\* all, one has a backing store of zero width and only a laid-out width.
CanvasSet ==
    { [width |-> 0,  height |-> 0,  clientWidth |-> 0,  clientHeight |-> 0],
      [width |-> 10, height |-> 10, clientWidth |-> 20, clientHeight |-> 20],
      [width |-> 10, height |-> 5,  clientWidth |-> 10, clientHeight |-> 5],
      [width |-> 0,  height |-> 10, clientWidth |-> 10, clientHeight |-> 0] }

\* document.querySelectorAll('canvas'): the canvases in document order.
Documents == UNION { [1..n -> CanvasSet] : n \in 0..MaxCanvases }

\* a || b || 0 on numbers: the first operand that is not zero.
orElse(a, b) == IF a # 0 THEN a ELSE IF b # 0 THEN b ELSE 0

\* (canvas.width || canvas.clientWidth || 0) * (canvas.height || canvas.clientHeight || 0)
areaOf(c) == orElse(c.width, c.clientWidth) * orElse(c.height, c.clientHeight)

LocInit ==
    /\ \E d \in Documents :
          loc = [canvases |-> d, k |-> 0, best |-> 0, bestArea |-> 0, ret |-> "running"]
    /\ errors = NewTracker /\ TrackerHistIdle /\ MainIdle /\ ActIdle /\ ShotIdle /\ CliIdle /\ ShimIdle /\ GameIdle /\ AppIdle

LocFrame == UNCHANGED <<trackerVars, trackerHist, mainVars, mainHist, actVars, shot, cli, shim, game, appVars>>

\* Mutant: a canvas of equal area replaces the best one.
getCanvasHandle_Visit_OrEqual ==
    /\ loc.ret = "running" /\ loc.k < Len(loc.canvases)
    /\ LET area == areaOf(loc.canvases[loc.k + 1]) IN
          loc' = IF area >= loc.bestArea
                 THEN [loc EXCEPT !.k = loc.k + 1, !.best = loc.k + 1, !.bestArea = area]
                 ELSE [loc EXCEPT !.k = loc.k + 1]
    /\ LocFrame

\* One round of the for-of: if (area > bestArea) { bestArea = area; best = canvas }.
\* best is the 1-based position of the canvas held, 0 for null.
getCanvasHandle_Visit ==
    /\ loc.ret = "running" /\ loc.k < Len(loc.canvases)
    /\ LET area == areaOf(loc.canvases[loc.k + 1]) IN
          loc' = IF area > loc.bestArea
                 THEN [loc EXCEPT !.k = loc.k + 1, !.best = loc.k + 1, !.bestArea = area]
                 ELSE [loc EXCEPT !.k = loc.k + 1]
    /\ LocFrame

\* return best; then handle.asElement(): null for the handle of null.
getCanvasHandle_Return ==
    /\ loc.ret = "running" /\ loc.k = Len(loc.canvases)
    /\ loc' = [loc EXCEPT !.ret = IF loc.best = 0 THEN "null" ELSE "element"]
    /\ LocFrame

LocNext ==
    \/ getCanvasHandle_Visit
    \/ getCanvasHandle_Return

SpecLocate == LocInit /\ [][LocNext]_vars


\* The areas of the document's canvases, in document order.
areasOf(d) == [n \in DOMAIN d |-> areaOf(d[n])]

\* C11: canvas selection. When the locator has returned: with no canvas, or
\* every area zero, it returned null; otherwise it returned the first canvas
\* in document order whose area is the greatest of all; and for the areas
\* [0, 100, 50, 100] it returned the canvas of (0-based) index 1.
C11_FirstMaximal ==
    loc.ret \in {"null", "element"} =>
        LET areas == areasOf(loc.canvases) IN
        /\ (\A n \in DOMAIN areas : areas[n] = 0) <=> loc.ret = "null"
        /\ loc.ret = "null" => loc.best = 0
        /\ loc.ret = "element" =>
              /\ loc.best \in DOMAIN areas
              /\ \A n \in DOMAIN areas : areas[n] <= areas[loc.best]
              /\ \A n \in DOMAIN areas : n < loc.best => areas[n] < areas[loc.best]
        /\ areas = <<0, 100, 50, 100>> => loc.best - 1 = 1

\* C11 witness: the locator returned index 1 for the areas [0, 100, 50, 100].
C11_Witness ==
    /\ loc.ret = "element"
    /\ areasOf(loc.canvases) = <<0, 100, 50, 100>>
    /\ loc.best - 1 = 1


-----------------------------------------------------------------------------
(* Screenshot capturer: captureScreenshot(page, canvas, outPath) *)

\* What c.toDataURL('image/png') can do: the canvas has no such function, the
\* call throws (tainted canvas), or it returns a data URL, here a sequence of
\* tokens: a PNG, the "data:," of a canvas without pixels, a text without comma.
DataURLs ==
    { <<"data:image/png;base64", ",", "iVBORw0KGgo">>, <<"data:", ",">>, <<"garbage">> }

ToDataURLOutcomes == {<<"missing">>, <<"throws">>} \cup DataURLs

\* The ways the in-page transparency probe can end: the canvas has no size,
\* the probe canvas gives no 2d context, drawImage/getImageData throws, every
\* sampled alpha is 0, some sampled alpha is not 0.
ProbeOutcomes == {"zeroSize", "noContext", "throws", "allZero", "someAlpha"}

RECURSIVE indexOf(_, _, _)
\* data.indexOf(tok): the first position at or after `from` holding tok, 0 if none.
indexOf(data, tok, from) ==
    IF from > Len(data) THEN 0
    ELSE IF data[from] = tok THEN from ELSE indexOf(data, tok, from + 1)

\* captureCanvasPngBase64(canvas): '' without toDataURL, '' when it throws,
\* '' without a comma, otherwise what follows the first comma.
captureCanvasPngBase64(toDataURL) ==
    IF toDataURL \in {<<"missing">>, <<"throws">>} THEN <<>>
    ELSE LET idx == indexOf(toDataURL, ",", 1) IN
         IF idx = 0 THEN <<>> ELSE SubSeq(toDataURL, idx + 1, Len(toDataURL))

\* Mutant: a probe that throws counts as transparent.
isCanvasTransparent_FailClosed(probe) ==
    probe \in {"zeroSize", "noContext", "allZero", "throws"}

\* isCanvasTransparent(canvas) for a canvas that is not null.
isCanvasTransparent(probe) == probe \in {"zeroSize", "noContext", "allZero"}

\* `buffer`: null, or the bytes a strategy produced.
NullBuffer == [by |-> "none", data |-> <<>>]

BufferOf(strategy, data) == [by |-> strategy, data |-> data]

ShotInit ==
    /\ \E cv \in {"null", "handle"}, td \in ToDataURLOutcomes, pr \in ProbeOutcomes,
          el \in {"png", "throws"}, bb \in {"null", "box"} :
          shot = [pc |-> "start", canvas |-> cv, toDataURL |-> td, probe |-> pr,
                  element |-> el, bbox |-> bb,
                  buffer |-> NullBuffer, attempts |-> <<>>,
                  written |-> FALSE, file |-> NullBuffer, rejected |-> "none"]
    /\ errors = NewTracker /\ TrackerHistIdle /\ MainIdle /\ ActIdle /\ LocIdle /\ CliIdle /\ ShimIdle /\ GameIdle /\ AppIdle

ShotFrame == UNCHANGED <<trackerVars, trackerHist, mainVars, mainHist, actVars, loc, cli>>
             /\ UNCHANGED <<shim, game, appVars>>

\* An attempt of a strategy and the buffer it gave (NullBuffer: it failed).
Attempt(strategy, result) == [strategy |-> strategy, result |-> result]

\* let buffer = null; if (canvas) ...; if (!buffer && canvas) ...; if (!buffer)
\* { const bbox = canvas ? await canvas.boundingBox() : null; ... }
captureScreenshot_Start ==
    /\ shot.pc = "start"
    /\ shot' = [shot EXCEPT !.pc = IF shot.canvas = "handle" THEN "export" ELSE "pageShot"]
    /\ ShotFrame

\* const base64 = await captureCanvasPngBase64(canvas); if (base64) { buffer =
\* Buffer.from(base64, 'base64'); ... }
captureScreenshot_Export ==
    /\ shot.pc = "export"
    /\ LET base64 == captureCanvasPngBase64(shot.toDataURL) IN
          shot' = IF base64 # <<>>
                  THEN [shot EXCEPT !.buffer = BufferOf("export", base64),
                                    !.attempts = Append(@, Attempt("export", BufferOf("export", base64))),
                                    !.pc = "probe"]
                  ELSE [shot EXCEPT !.attempts = Append(@, Attempt("export", NullBuffer)),
                                    !.pc = "elementShot"]
    /\ ShotFrame

\* const transparent = await isCanvasTransparent(canvas); if (transparent)
\* buffer = null
captureScreenshot_Probe ==
    /\ shot.pc = "probe"
    /\ shot' = IF isCanvasTransparent(shot.probe)
               THEN [shot EXCEPT !.buffer = NullBuffer,
                                 !.attempts[Len(shot.attempts)].result = NullBuffer,
                                 !.pc = "elementShot"]
               ELSE [shot EXCEPT !.pc = "write"]
    /\ ShotFrame

\* Mutant: the element screenshot is not guarded by try/catch.
captureScreenshot_ElementShot_NoCatch ==
    /\ shot.pc = "elementShot"
    /\ shot' = IF shot.element = "png"
               THEN [shot EXCEPT !.buffer = BufferOf("element", <<"elementPng">>),
                                 !.attempts = Append(@, Attempt("element", BufferOf("element", <<"elementPng">>))),
                                 !.pc = "write"]
               ELSE [shot EXCEPT !.attempts = Append(@, Attempt("element", NullBuffer)),
                                 !.pc = "threw"]
    /\ ShotFrame

\* try { buffer = await canvas.screenshot({ type: 'png' }) } catch { buffer = null }
captureScreenshot_ElementShot ==
    /\ shot.pc = "elementShot"
    /\ shot' = IF shot.element = "png"
               THEN [shot EXCEPT !.buffer = BufferOf("element", <<"elementPng">>),
                                 !.attempts = Append(@, Attempt("element", BufferOf("element", <<"elementPng">>))),
                                 !.pc = "write"]
               ELSE [shot EXCEPT !.attempts = Append(@, Attempt("element", NullBuffer)),
                                 !.pc = "bbox"]
    /\ ShotFrame

\* const bbox = await canvas.boundingBox(); if (bbox) ... else ...
captureScreenshot_BBox ==
    /\ shot.pc = "bbox"
    /\ shot' = [shot EXCEPT !.pc = IF shot.bbox = "box" THEN "clipShot" ELSE "pageShot"]
    /\ ShotFrame

\* Mutant: the clipped page screenshot is taken although the element
\* screenshot produced a buffer.
captureScreenshot_ClipShot_Always ==
    /\ shot.pc \in {"clipShot", "write"} /\ shot.buffer.by # "clip"
    /\ shot' = [shot EXCEPT !.buffer = BufferOf("clip", <<"clipPng">>),
                            !.attempts = Append(@, Attempt("clip", BufferOf("clip", <<"clipPng">>))),
                            !.pc = "write"]
    /\ ShotFrame

\* buffer = await page.screenshot({ type: 'png', omitBackground: false, clip: bbox })
captureScreenshot_ClipShot ==
    /\ shot.pc = "clipShot"
    /\ shot' = [shot EXCEPT !.buffer = BufferOf("clip", <<"clipPng">>),
                            !.attempts = Append(@, Attempt("clip", BufferOf("clip", <<"clipPng">>))),
                            !.pc = "write"]
    /\ ShotFrame

\* buffer = await page.screenshot({ type: 'png', omitBackground: false })
captureScreenshot_PageShot ==
    /\ shot.pc = "pageShot"
    /\ shot' = [shot EXCEPT !.buffer = BufferOf("page", <<"pagePng">>),
                            !.attempts = Append(@, Attempt("page", BufferOf("page", <<"pagePng">>))),
                            !.pc = "write"]
    /\ ShotFrame

\* fs.writeFileSync(outPath, buffer)
captureScreenshot_Write ==
    /\ shot.pc = "write"
    /\ shot' = [shot EXCEPT !.written = TRUE, !.file = shot.buffer, !.pc = "done"]
    /\ ShotFrame

\* An awaited command that sits in no try/catch rejects (the session is
\* lost, the clip is refused): the exception leaves captureScreenshot.
captureScreenshot_Reject ==
    /\ shot.pc \in {"export", "probe", "bbox", "clipShot", "pageShot"}
    /\ shot' = [shot EXCEPT !.rejected = shot.pc, !.pc = "threw"]
    /\ ShotFrame

ShotNext ==
    \/ captureScreenshot_Start
    \/ captureScreenshot_Export
    \/ captureScreenshot_Probe
    \/ captureScreenshot_ElementShot
    \/ captureScreenshot_BBox
    \/ captureScreenshot_ClipShot
    \/ captureScreenshot_PageShot
    \/ captureScreenshot_Write
    \/ captureScreenshot_Reject

SpecCapture == ShotInit /\ [][ShotNext]_vars


\* The place of a strategy in the cascade.
StrategyRank(strategy) ==
    CASE strategy = "export"  -> 1
      [] strategy = "element" -> 2
      [] strategy = "clip"    -> 3
      [] strategy = "page"    -> 4

\* A strategy that cannot be tried at all: no canvas to export or shoot, no
\* bounding box to clip to.
Unavailable(strategy) ==
    CASE strategy = "export"  -> shot.canvas = "null"
      [] strategy = "element" -> shot.canvas = "null"
      [] strategy = "clip"    -> shot.canvas = "null" \/ shot.bbox = "null"
      [] strategy = "page"    -> FALSE

\* C12: screenshot cascade order. The strategies are attempted in the order
\* direct export, element screenshot, clipped page screenshot, unclipped page
\* screenshot; a strategy is attempted only when every earlier one failed
\* (was attempted without giving a buffer, or could not be tried); the direct
\* export is kept only if its data is non-empty and not every sampled alpha
\* is 0; and the buffer written is that of the first strategy that succeeded.
C12_CascadeOrder ==
    shot.pc # "off" =>
        LET a == shot.attempts IN
        /\ \A m, n \in DOMAIN a :
              m < n => /\ StrategyRank(a[m].strategy) < StrategyRank(a[n].strategy)
                       /\ a[m].result = NullBuffer
        /\ \A n \in DOMAIN a :
              \A s \in {"export", "element", "clip", "page"} :
                 StrategyRank(s) < StrategyRank(a[n].strategy) =>
                    \/ \E m \in 1..(n - 1) : a[m].strategy = s
                    \/ Unavailable(s)
        /\ \A n \in DOMAIN a :
              (a[n].strategy = "export" /\ a[n].result # NullBuffer
                  /\ shot.pc \in {"write", "done"}) =>
                 /\ shot.toDataURL \in DataURLs
                 /\ Len(shot.toDataURL) > indexOf(shot.toDataURL, ",", 1)
                 /\ shot.probe # "allZero"
                 /\ a[n].result.data = <<shot.toDataURL[Len(shot.toDataURL)]>>
        /\ shot.written =>
              /\ a # <<>>
              /\ shot.file = a[Len(a)].result
              /\ shot.file # NullBuffer
              /\ shot.file.by = a[Len(a)].strategy

\* C12 witness: the export gave no data, the element screenshot threw, and
\* the clipped page screenshot was written.
C12_Witness ==
    /\ shot.pc = "done"
    /\ [n \in DOMAIN shot.attempts |-> shot.attempts[n].strategy] = <<"export", "element", "clip">>
    /\ shot.file = BufferOf("clip", <<"clipPng">>)

sampledAlphas(probe) ==
    CASE probe = "zeroSize"  -> <<>>
      [] probe = "noContext" -> <<>>
      [] probe = "throws"    -> <<>>
      [] probe = "allZero"   -> <<0, 0>>
      [] probe = "someAlpha" -> <<0, 255>>

\* The direct export gave data and the probe has discarded it.
ExportDiscarded ==
    /\ shot.pc \notin {"off", "start", "export", "probe"}
    /\ shot.rejected \notin {"export", "probe"}
    /\ captureCanvasPngBase64(shot.toDataURL) # <<>>
    /\ shot.attempts # <<>>
    /\ shot.attempts[1] = Attempt("export", NullBuffer)

\* C24: the transparency probe fails open. When the direct export gave data
\* and the probe throws, the exported buffer stays, no other strategy is
\* attempted, and the file written is the exported buffer; and an export that
\* gave data is discarded only when the probe ended without throwing and
\* every alpha value it sampled is 0 (which is also so when it returned
\* before sampling any: canvas without size, probe canvas without context).
C24_ProbeFailsOpen ==
    /\ (/\ shot.pc \in {"write", "done"} /\ shot.canvas = "handle"
        /\ captureCanvasPngBase64(shot.toDataURL) # <<>>
        /\ shot.probe = "throws") =>
           /\ shot.attempts =
                 <<Attempt("export", BufferOf("export", captureCanvasPngBase64(shot.toDataURL)))>>
           /\ shot.buffer = BufferOf("export", captureCanvasPngBase64(shot.toDataURL))
           /\ shot.written => shot.file = shot.buffer
    /\ ExportDiscarded =>
           /\ shot.probe # "throws"
           /\ \A k \in DOMAIN sampledAlphas(shot.probe) : sampledAlphas(shot.probe)[k] = 0

\* C24 witness: the export gave data, the probe threw, and the exported
\* buffer was written.
C24_Witness ==
    /\ shot.pc = "done" /\ shot.probe = "throws"
    /\ shot.file = BufferOf("export", <<"iVBORw0KGgo">>)


-----------------------------------------------------------------------------
(* Command line: parseArgs(argv), loadActions(args) and the start of main() *)

\* The files an --actions-file path can name, with their text; missing.json
\* does not exist.
Paths == {"array.json", "object.json", "nosteps.json", "bad.json", "missing.json"}

readFileSync(path) ==
    CASE path = "array.json"   -> "[{\"buttons\":[\"a\"],\"frames\":1}]"
      [] path = "object.json"  -> "{\"steps\":[{\"buttons\":[\"b\"]}]}"
      [] path = "nosteps.json" -> "{\"title\":\"demo\"}"
      [] path = "bad.json"     -> "not json"

\* The values given to --actions-json.
InlineTexts ==
    { "[{\"buttons\":[\"x\"]}]", "{\"steps\":[{\"buttons\":[\"y\"],\"frames\":2}]}",
      "{}", "[1," }

\* JSON.parse(text) of the texts above: an array, an object with or without
\* a steps property, or a SyntaxError.
JSONparse(text) ==
    CASE text = "[{\"buttons\":[\"a\"],\"frames\":1}]" ->
            [kind |-> "array", items |-> <<[buttons |-> <<"a">>, frames |-> 1]>>]
      [] text = "{\"steps\":[{\"buttons\":[\"b\"]}]}" ->
            [kind |-> "object", steps |-> <<[buttons |-> <<"b">>]>>]
      [] text = "{\"title\":\"demo\"}" -> [kind |-> "object"]
      [] text = "[{\"buttons\":[\"x\"]}]" ->
            [kind |-> "array", items |-> <<[buttons |-> <<"x">>]>>]
      [] text = "{\"steps\":[{\"buttons\":[\"y\"],\"frames\":2}]}" ->
            [kind |-> "object", steps |-> <<[buttons |-> <<"y">>, frames |-> 2]>>]
      [] text = "{}" -> [kind |-> "object"]
      [] OTHER -> [kind |-> "SyntaxError"]

\* Array.isArray(parsed) ? parsed : parsed.steps || []
stepsOfParsed(parsed) ==
    IF parsed.kind = "array" THEN parsed.items
    ELSE IF "steps" \in DOMAIN parsed THEN parsed.steps ELSE <<>>

\* A number parseFloat gives; NaN is the one that is not finite.
Num(v) == [finite |-> TRUE, v |-> v]

NaN == [finite |-> FALSE, v |-> 0]

\* next.split(',').map(v => parseFloat(v.trim())) for the --click values used.
splitParseFloat(next) ==
    CASE next = "480,270" -> <<Num(480), Num(270)>>
      [] next = "480"     -> <<Num(480)>>
      [] OTHER            -> <<NaN>>

\* The command lines modelled: after node and the script, optional --url,
\* --actions-file, --actions-json, --click and --no-wait arguments, and
\* possibly a trailing --url without value.
Argvs ==
    { <<"node", "iterate-client.js">> \o u \o a \o j \o c \o w \o t :
        u \in {<<>>, <<"--url", "http://localhost:3000">>},
        a \in {<<>>} \cup {<<"--actions-file", path>> : path \in Paths},
        j \in {<<>>} \cup {<<"--actions-json", text>> : text \in InlineTexts},
        c \in {<<>>, <<"--click", "480,270">>, <<"--click", "480">>, <<"--click", "abc">>},
        w \in {<<>>, <<"--no-wait">>},
        t \in {<<>>, <<"--url">>} }

\* const args = { url: null, ..., click: null, waitForGame: true, ... }; null
\* is written "null", and <<>> for the click ({x, y} is <<x, y>>).
DefaultArgs ==
    [url |-> "null", actionsFile |-> "null", actionsJson |-> "null",
     click |-> <<>>, waitForGame |-> TRUE]

CliInit ==
    /\ \E argv \in Argvs :
          cli = [pc |-> "parseArgs", argv |-> argv, i |-> 3, args |-> DefaultArgs,
                 steps |-> <<>>, reads |-> {}, dirMade |-> FALSE, launched |-> FALSE,
                 exitCode |-> 0, threw |-> FALSE]
    /\ errors = NewTracker /\ TrackerHistIdle /\ MainIdle /\ ActIdle
    /\ LocIdle /\ ShotIdle /\ ShimIdle /\ GameIdle /\ AppIdle

CliFrame == UNCHANGED <<trackerVars, trackerHist, mainVars, mainHist, actVars, loc, shot, shim, game, appVars>>

\* One round of parseArgs' for loop (argv[2] is position 3 here). `next` is
\* missing past the end; a flag that needs a value and has none is skipped.
parseArgs_Arg ==
    /\ cli.pc = "parseArgs" /\ cli.i <= Len(cli.argv)
    /\ LET arg == cli.argv[cli.i]
           hasNext == cli.i + 1 <= Len(cli.argv) /\ cli.argv[cli.i + 1] # ""
           next == cli.argv[cli.i + 1]
       IN  cli' =
             IF arg = "--url" /\ hasNext
               THEN [cli EXCEPT !.args.url = next, !.i = cli.i + 2]
             ELSE IF arg = "--actions-file" /\ hasNext
               THEN [cli EXCEPT !.args.actionsFile = next, !.i = cli.i + 2]
             ELSE IF arg = "--actions-json" /\ hasNext
               THEN [cli EXCEPT !.args.actionsJson = next, !.i = cli.i + 2]
             ELSE IF arg = "--click" /\ hasNext
               THEN LET parts == splitParseFloat(next) IN
                    IF Len(parts) = 2 /\ \A n \in DOMAIN parts : parts[n].finite
                    THEN [cli EXCEPT !.args.click = <<parts[1].v, parts[2].v>>,
                                     !.i = cli.i + 2]
                    ELSE [cli EXCEPT !.i = cli.i + 2]
             ELSE IF arg = "--no-wait"
               THEN [cli EXCEPT !.args.waitForGame = FALSE, !.i = cli.i + 1]
             ELSE [cli EXCEPT !.i = cli.i + 1]
    /\ CliFrame

\* Mutant: parseArgs returns although --url is missing.
parseArgs_Return_NoUsage ==
    /\ cli.pc = "parseArgs" /\ cli.i > Len(cli.argv)
    /\ cli' = [cli EXCEPT !.pc = "loadActions"]
    /\ CliFrame

\* if (!args.url) { console.error(usage); process.exit(1) }; return args
parseArgs_Return ==
    /\ cli.pc = "parseArgs" /\ cli.i > Len(cli.argv)
    /\ cli' = IF cli.args.url = "null"
              THEN [cli EXCEPT !.pc = "exited", !.exitCode = 1]
              ELSE [cli EXCEPT !.pc = "loadActions"]
    /\ CliFrame

\* The click step loadActions builds.
ClickStep(click) ==
    [buttons |-> <<"left_mouse_button">>, frames |-> 2,
     mouse_x |-> click[1], mouse_y |-> click[2]]

\* The built-in default step list.
DefaultSteps == <<[buttons |-> <<"space">>, frames |-> 4]>>

\* Mutant: the inline JSON is looked at before the file.
loadActions_JsonFirst(a) ==
    IF a.actionsJson # "null"
    THEN IF JSONparse(a.actionsJson).kind = "SyntaxError"
         THEN [threw |-> TRUE, steps |-> <<>>, reads |-> {"json"}]
         ELSE [threw |-> FALSE, steps |-> stepsOfParsed(JSONparse(a.actionsJson)),
               reads |-> {"json"}]
    ELSE IF a.actionsFile # "null"
    THEN IF a.actionsFile = "missing.json"
            \/ JSONparse(readFileSync(a.actionsFile)).kind = "SyntaxError"
         THEN [threw |-> TRUE, steps |-> <<>>, reads |-> {"file"}]
         ELSE [threw |-> FALSE, steps |-> stepsOfParsed(JSONparse(readFileSync(a.actionsFile))),
               reads |-> {"file"}]
    ELSE IF a.click # <<>>
    THEN [threw |-> FALSE, steps |-> <<ClickStep(a.click)>>, reads |-> {}]
    ELSE [threw |-> FALSE, steps |-> DefaultSteps, reads |-> {}]

\* loadActions(args): whether it threw (ENOENT, SyntaxError), the step list
\* returned, and the sources it read.
loadActions(a) ==
    IF a.actionsFile # "null"
    THEN IF a.actionsFile = "missing.json"
            \/ JSONparse(readFileSync(a.actionsFile)).kind = "SyntaxError"
         THEN [threw |-> TRUE, steps |-> <<>>, reads |-> {"file"}]
         ELSE [threw |-> FALSE, steps |-> stepsOfParsed(JSONparse(readFileSync(a.actionsFile))),
               reads |-> {"file"}]
    ELSE IF a.actionsJson # "null"
    THEN IF JSONparse(a.actionsJson).kind = "SyntaxError"
         THEN [threw |-> TRUE, steps |-> <<>>, reads |-> {"json"}]
         ELSE [threw |-> FALSE, steps |-> stepsOfParsed(JSONparse(a.actionsJson)),
               reads |-> {"json"}]
    ELSE IF a.click # <<>>
    THEN [threw |-> FALSE, steps |-> <<ClickStep(a.click)>>, reads |-> {}]
    ELSE [threw |-> FALSE, steps |-> DefaultSteps, reads |-> {}]

\* const steps = loadActions(args); an exception reaches main().catch.
cli_loadActions ==
    /\ cli.pc = "loadActions"
    /\ LET r == loadActions(cli.args) IN
          cli' = IF r.threw
                 THEN [cli EXCEPT !.reads = r.reads, !.threw = TRUE, !.exitCode = 1,
                                  !.pc = "exited"]
                 ELSE [cli EXCEPT !.reads = r.reads, !.steps = r.steps, !.pc = "ensureDir"]
    /\ CliFrame

\* ensureDir(args.screenshotDir)
cli_ensureDir ==
    /\ cli.pc = "ensureDir"
    /\ cli' = [cli EXCEPT !.dirMade = TRUE, !.pc = "launch"]
    /\ CliFrame

\* const browser = await chromium.launch(...): the run goes on as in Spec.
cli_launch ==
    /\ cli.pc = "launch"
    /\ cli' = [cli EXCEPT !.launched = TRUE, !.pc = "running"]
    /\ CliFrame

CliNext ==
    \/ parseArgs_Arg
    \/ parseArgs_Return
    \/ cli_loadActions
    \/ cli_ensureDir
    \/ cli_launch

SpecArgs == CliInit /\ [][CliNext]_vars


\* The flag occurs on the command line followed by a value.
Given(flag) == \E k \in 3..(Len(cli.argv) - 1) : cli.argv[k] = flag

\* The value that follows the flag.
ValueOf(flag) ==
    cli.argv[(CHOOSE k \in 3..(Len(cli.argv) - 1) : cli.argv[k] = flag) + 1]

\* --click is given with a value of the form x,y.
ClickGiven ==
    /\ Given("--click")
    /\ Len(splitParseFloat(ValueOf("--click"))) = 2
    /\ \A n \in 1..2 : splitParseFloat(ValueOf("--click"))[n].finite

C18_UsageError ==
    ~Given("--url") =>
        /\ cli.pc \in {"parseArgs", "exited"}
        /\ cli.reads = {} /\ cli.steps = <<>>
        /\ ~cli.dirMade /\ ~cli.launched /\ ~cli.threw
        /\ cli.pc = "exited" => cli.exitCode = 1

\* C18 witness: a command line naming an actions file but no --url ended with
\* status 1.
C18_Witness ==
    /\ cli.pc = "exited" /\ cli.exitCode = 1
    /\ ~Given("--url") /\ Given("--actions-file") /\ cli.reads = {}


-----------------------------------------------------------------------------
(* Virtual time shim: makeVirtualTimeShim() *)

\* Most timer and frame requests the page makes in a modelled run.
MaxTasks == 3

\* Most times one interval's callback is run.
MaxFires == 2

\* A request made through a patched function: its `task` object is the
\* position of the record in shim.tasks.
Task(kind) == [kind |-> kind, state |-> "armed", fires |-> 0]

\* The window of a fresh document once the init script has run: no task,
\* window.advanceTime is the shim's, the page's script has assigned nothing.
FreshWindow ==
    [tasks |-> <<>>, pending |-> {}, polling |-> "none",
     advanceTime |-> "shim", assigned |-> FALSE]

\* The shim as installed: const pending = new Set(); window.advanceTime = ...
ShimInit ==
    /\ shim = FreshWindow
    /\ errors = NewTracker /\ TrackerHistIdle /\ MainIdle /\ ActIdle
    /\ LocIdle /\ ShotIdle /\ CliIdle /\ GameIdle /\ AppIdle

ShimFrame == UNCHANGED <<trackerVars, trackerHist, mainVars, mainHist, actVars, loc, shot, cli, game, appVars>>

\* window.setTimeout / window.setInterval / window.requestAnimationFrame as
\* patched: const task = {}; pending.add(task); return orig...(wrapper)
shim_schedule(kind) ==
    /\ Len(shim.tasks) < MaxTasks
    /\ shim' = [shim EXCEPT !.tasks = Append(@, Task(kind)),
                            !.pending = @ \cup {Len(shim.tasks) + 1}]
    /\ ShimFrame

\* The browser runs the wrapper of a timeout or of a frame request:
\* () => { pending.delete(task); fn(...) }
shim_fireOneShot(id) ==
    /\ shim.tasks[id].kind \in {"timeout", "raf"} /\ shim.tasks[id].state = "armed"
    /\ shim' = [shim EXCEPT !.tasks[id].state = "fired",
                            !.tasks[id].fires = 1,
                            !.pending = @ \ {id}]
    /\ ShimFrame

\* Mutant: the wrapper of an interval removes its task as well.
shim_fireInterval_Delete(id) ==
    /\ shim.tasks[id].kind = "interval" /\ shim.tasks[id].state = "armed"
    /\ shim.tasks[id].fires < MaxFires
    /\ shim' = [shim EXCEPT !.tasks[id].fires = @ + 1, !.pending = @ \ {id}]
    /\ ShimFrame

\* The browser runs the wrapper of an interval: () => { fn(...rest) }
shim_fireInterval(id) ==
    /\ shim.tasks[id].kind = "interval" /\ shim.tasks[id].state = "armed"
    /\ shim.tasks[id].fires < MaxFires
    /\ shim' = [shim EXCEPT !.tasks[id].fires = @ + 1]
    /\ ShimFrame

\* clearTimeout / clearInterval / cancelAnimationFrame with the id the
\* patched function returned: these are not patched, the browser drops the
\* timer and the shim is not told.
shim_cancel(id) ==
    /\ shim.tasks[id].state = "armed"
    /\ shim' = [shim EXCEPT !.tasks[id].state = "cancelled"]
    /\ ShimFrame

\* A frame advance of runActions finds the shim's function in
\* window.advanceTime: it polls through origRAF, which the shim does not
\* track, until ms have elapsed.
shim_advanceTime ==
    /\ shim.polling = "none" /\ shim.advanceTime = "shim"
    /\ shim' = [shim EXCEPT !.polling = "shim"]
    /\ ShimFrame

\* A frame advance of runActions finds the page's function in
\* window.advanceTime: it polls through requestAnimationFrame, which is the
\* patched one, so its request is a task of the shim.
page_advanceTime ==
    /\ shim.polling = "none" /\ shim.advanceTime = "page"
    /\ Len(shim.tasks) < MaxTasks
    /\ shim' = [shim EXCEPT !.polling = "page",
                            !.tasks = Append(@, Task("raf")),
                            !.pending = @ \cup {Len(shim.tasks) + 1}]
    /\ ShimFrame

\* step(now): resolve once ms have elapsed, otherwise poll again.
shim_advanceStep ==
    /\ shim.polling # "none"
    /\ \E elapsed \in BOOLEAN :
          shim' = [shim EXCEPT !.polling = IF elapsed THEN "none" ELSE @]
    /\ ShimFrame

\* The page's own script runs its top level: window.advanceTime = (ms) => ...
page_assignAdvanceTime ==
    /\ shim' = [shim EXCEPT !.advanceTime = "page", !.assigned = TRUE]
    /\ ShimFrame

\* Mutant: the init script is not run again for the new document.
page_navigate_NoInitScript ==
    /\ shim' = [FreshWindow EXCEPT !.advanceTime = shim.advanceTime]
    /\ ShimFrame

\* The page navigates (page.goto, a reload): a new document with a new
\* window, in which the init script runs before any script of the page.
page_navigate ==
    /\ shim' = FreshWindow
    /\ ShimFrame

\* window.__drainVirtualTimePending = () => pending.size
drainVirtualTimePending == Cardinality(shim.pending)

ShimNext ==
    \/ \E kind \in {"timeout", "interval", "raf"} : shim_schedule(kind)
    \/ \E id \in DOMAIN shim.tasks : shim_fireOneShot(id)
    \/ \E id \in DOMAIN shim.tasks : shim_fireInterval(id)
    \/ \E id \in DOMAIN shim.tasks : shim_cancel(id)
    \/ shim_advanceTime
    \/ page_advanceTime
    \/ shim_advanceStep
    \/ page_assignAdvanceTime
    \/ page_navigate

SpecShim == ShimInit /\ [][ShimNext]_vars


\* The calls of a patched function made so far.
Made(kind) == {id \in DOMAIN shim.tasks : shim.tasks[id].kind = kind}

\* Those whose callback has not run yet.
NotFired(kind) == {id \in Made(kind) : shim.tasks[id].fires = 0}

\* C20: the pending set of the shim. At every moment
\* __drainVirtualTimePending() is the number of setTimeout calls whose
\* callback has not fired, plus the number of requestAnimationFrame calls
\* whose callback has not fired, plus the number of setInterval calls made;
\* within a document a task leaves the set in a step exactly when it is a
\* one-shot task whose callback fires in that step, an interval task never
\* leaves it, and a task enters it exactly when it is requested. (A
\* navigation replaces the window, its timers and the set altogether.)
C20_PendingCount ==
    /\ [](drainVirtualTimePending =
              Cardinality(NotFired("timeout"))
            + Cardinality(NotFired("raf"))
            + Cardinality(Made("interval")))
    /\ [][ Len(shim'.tasks) >= Len(shim.tasks) =>
           /\ \A id \in DOMAIN shim.tasks :
                 (id \in shim.pending /\ id \notin shim'.pending) <=>
                    /\ shim.tasks[id].kind \in {"timeout", "raf"}
                    /\ shim.tasks[id].fires = 0 /\ shim'.tasks[id].fires = 1
           /\ \A id \in DOMAIN shim'.tasks :
                 (id \notin shim.pending /\ id \in shim'.pending) <=>
                    id \notin DOMAIN shim.tasks
         ]_vars

\* C20 witness: a timeout has fired, a frame request is outstanding, an
\* interval has fired twice, and the drain value is 2.
C20_Witness ==
    /\ Len(shim.tasks) = 3
    /\ \E a, b, c \in DOMAIN shim.tasks :
          /\ shim.tasks[a].kind = "timeout" /\ shim.tasks[a].fires = 1
          /\ shim.tasks[b].kind = "raf" /\ shim.tasks[b].fires = 0
          /\ shim.tasks[c].kind = "interval" /\ shim.tasks[c].fires = 2
    /\ drainVirtualTimePending = 2

C30_NoLeakedTimers ==
    (\A id \in DOMAIN shim.tasks :
        IF shim.tasks[id].kind = "interval"
        THEN shim.tasks[id].state = "cancelled"
        ELSE shim.tasks[id].fires >= 1 \/ shim.tasks[id].state = "cancelled")
    => drainVirtualTimePending = 0


-----------------------------------------------------------------------------
(* Iteration controller: main() *)

\* Largest --iterations value modelled.
MaxIterations == 2

\* The run configurations parseArgs can return (the fields main branches on).
\* url is whether --url was given; clickSelector whether --click-selector was.
ArgSet ==
    [url : BOOLEAN, iterations : 0..MaxIterations,
     waitForGame : BOOLEAN, clickSelector : BOOLEAN]

\* Positions at which main() is suspended on an awaited command, the page
\* being live: the listeners can only run here.
PageLivePcs ==
    {"goto", "waitForGame", "settle", "resize", "locate", "click", "clickPause",
     "relocate", "runActions", "pause", "screenshot", "textState", "close"}

\* Positions whose command, when it rejects or throws, ends main() through
\* main().catch. (waitForGame, click and clickPause sit in try/catch; pause
\* is a timer.)
ThrowPcs ==
    {"loadActions", "launch", "newPage", "addInitScript", "goto", "settle",
     "resize", "locate", "relocate", "runActions", "screenshot", "textState",
     "close"}

\* The texts the page of a modelled run emits: the same text can arrive as a
\* console message (of type error or not) and as an uncaught exception, any
\* number of times, at any await of main().
PageErrorTexts == {"boom"}

\* An artifact under args.screenshotDir.
File(kind, idx, content) == [kind |-> kind, idx |-> idx, content |-> content]

\* A value page.evaluate can hand back for the text state: null, or a string.
Null == [kind |-> "null", text |-> ""]

String(text) == [kind |-> "string", text |-> text]

\* `textState` outside the part of the loop body where it is in scope.
Unset == [kind |-> "unset", text |-> ""]

NoGlobals == [render_game_to_text |-> "unset", GAME_STATE |-> "unset"]

\* What a page can expose: window.render_game_to_text is not a function, or
\* is one returning a text, '' or null; window.__GAME_STATE__ is undefined,
\* null, or an object.
PageGlobalsSet ==
    [render_game_to_text : {"notFunction", "returnsText", "returnsEmpty", "returnsNull"},
     GAME_STATE : {"undefined", "null", "emptyObject", "scoreObject"}]

\* JSON.stringify(window.__GAME_STATE__) of an object.
JSONstringifyState(state) ==
    CASE state = "emptyObject" -> "{}"
      [] state = "scoreObject" -> "{\"score\":3}"

\* Mutant: the global state object is preferred to the renderer function.
evaluateTextState_StateFirst(g) ==
    IF g.GAME_STATE \in {"emptyObject", "scoreObject"}
    THEN String(JSONstringifyState(g.GAME_STATE))
    ELSE IF g.render_game_to_text = "returnsText" THEN String("score: 3")
    ELSE IF g.render_game_to_text = "returnsEmpty" THEN String("")
    ELSE Null

\* The function evaluated in the page for textState.
evaluateTextState(g) ==
    IF g.render_game_to_text # "notFunction"
    THEN CASE g.render_game_to_text = "returnsText"  -> String("score: 3")
           [] g.render_game_to_text = "returnsEmpty" -> String("")
           [] g.render_game_to_text = "returnsNull"  -> Null
    ELSE IF g.GAME_STATE \in {"emptyObject", "scoreObject"}
    THEN String(JSONstringifyState(g.GAME_STATE))
    ELSE Null

\* if (textState): null and '' are falsy.
truthy(t) == t.kind = "string" /\ t.text # ""

Init ==
    /\ pc = "parseArgs"
    /\ args \in ArgSet
    /\ browser = "none" /\ listening = FALSE /\ shimmed = FALSE
    /\ canvas = "null" /\ i = 0 /\ hadErrors = FALSE
    /\ files = {} /\ exitCode = 0 /\ threw = FALSE
    /\ warnings = {}
    /\ textState = Unset /\ pageGlobals = NoGlobals
    /\ errors = NewTracker
    /\ emittedBefore = {} /\ emittedSince = {}
    /\ lastDrain = [at |-> "none", idx |-> 0, out |-> <<>>, since |-> {}, fresh |-> {}]
    /\ TrackerHistIdle /\ ActIdle /\ PartsIdle

\* What a step of main() leaves alone: the other parts, and (MainFrame) the
\* variables of main that only a few of its steps write.
MainOther == UNCHANGED <<trackerHist, actVars, partVars>>

MainFrame == MainOther /\ UNCHANGED <<warnings, textState, pageGlobals>>

\* parseArgs(process.argv): without --url, usage and process.exit(1).
main_parseArgs ==
    /\ pc = "parseArgs"
    /\ IF args.url
       THEN pc' = "loadActions" /\ UNCHANGED exitCode
       ELSE pc' = "exited" /\ exitCode' = 1
    /\ UNCHANGED <<args, browser, listening, shimmed, canvas, i, hadErrors, files,
                   threw, errors, mainHist>>
    /\ MainFrame

\* loadActions(args); ensureDir(args.screenshotDir)
main_loadActions ==
    /\ pc = "loadActions"
    /\ pc' = "launch"
    /\ UNCHANGED <<args, browser, listening, shimmed, canvas, i, hadErrors, files,
                   exitCode, threw, errors, mainHist>>
    /\ MainFrame

\* const browser = await chromium.launch(...)
main_launch ==
    /\ pc = "launch"
    /\ browser' = "open"
    /\ pc' = "newPage"
    /\ UNCHANGED <<args, listening, shimmed, canvas, i, hadErrors, files,
                   exitCode, threw, errors, mainHist>>
    /\ MainFrame

\* Mutant: the listeners are attached only after the navigation.
main_newPage_ListenLate ==
    /\ pc = "newPage"
    /\ errors' = NewTracker
    /\ pc' = "addInitScript"
    /\ UNCHANGED <<args, browser, listening, shimmed, canvas, i, hadErrors, files,
                   exitCode, threw, mainHist>>
    /\ MainFrame

\* const page = await browser.newPage(); const errors = new ConsoleErrorTracker();
\* page.on('console', ...); page.on('pageerror', ...)
main_newPage ==
    /\ pc = "newPage"
    /\ errors' = NewTracker
    /\ listening' = TRUE
    /\ pc' = "addInitScript"
    /\ UNCHANGED <<args, browser, shimmed, canvas, i, hadErrors, files,
                   exitCode, threw, mainHist>>
    /\ MainFrame

\* await page.addInitScript({ content: makeVirtualTimeShim() })
main_addInitScript ==
    /\ pc = "addInitScript"
    /\ shimmed' = TRUE
    /\ pc' = "goto"
    /\ UNCHANGED <<args, browser, listening, canvas, i, hadErrors, files,
                   exitCode, threw, errors, mainHist>>
    /\ MainFrame

\* await page.goto(args.url, ...); then if (args.waitForGame) ...
main_goto ==
    /\ pc = "goto"
    /\ pc' = IF args.waitForGame THEN "waitForGame" ELSE "settle"
    /\ UNCHANGED <<args, browser, listening, shimmed, canvas, i, hadErrors, files,
                   exitCode, threw, errors, mainHist>>
    /\ MainFrame

\* Mutant: a boot wait that times out ends the run.
main_waitForGame_Fatal ==
    /\ pc = "waitForGame"
    /\ \E timedOut \in BOOLEAN :
          IF timedOut
          THEN pc' = "exited" /\ threw' = TRUE /\ exitCode' = 1
          ELSE pc' = "settle" /\ UNCHANGED <<threw, exitCode>>
    /\ UNCHANGED <<args, browser, listening, shimmed, canvas, i, hadErrors, files,
                   errors, mainHist, warnings, textState, pageGlobals>>
    /\ MainOther

\* try { await page.waitForFunction(...) } catch { console.warn(...) }: the
\* run goes on whether the wait succeeded or timed out.
main_waitForGame ==
    /\ pc = "waitForGame"
    /\ \E timedOut \in BOOLEAN :
          warnings' = IF timedOut THEN warnings \cup {"boot-timeout"} ELSE warnings
    /\ pc' = "settle"
    /\ UNCHANGED <<args, browser, listening, shimmed, canvas, i, hadErrors, files,
                   exitCode, threw, errors, mainHist, textState, pageGlobals>>
    /\ MainOther

\* await page.waitForTimeout(500)
main_settle ==
    /\ pc = "settle"
    /\ pc' = "resize"
    /\ UNCHANGED <<args, browser, listening, shimmed, canvas, i, hadErrors, files,
                   exitCode, threw, errors, mainHist>>
    /\ MainFrame

\* await page.evaluate(() => window.dispatchEvent(new Event('resize')))
main_resize ==
    /\ pc = "resize"
    /\ pc' = "locate"
    /\ UNCHANGED <<args, browser, listening, shimmed, canvas, i, hadErrors, files,
                   exitCode, threw, errors, mainHist>>
    /\ MainFrame

\* let canvas = await getCanvasHandle(page); then if (args.clickSelector) ...
main_locate ==
    /\ pc = "locate"
    /\ canvas' \in {"null", "handle"}
    /\ pc' = IF args.clickSelector THEN "click" ELSE "bootCheck"
    /\ UNCHANGED <<args, browser, listening, shimmed, i, hadErrors, files,
                   exitCode, threw, errors, mainHist>>
    /\ MainFrame

\* try { await page.click(args.clickSelector, ...) ... } catch { console.warn }
main_click ==
    /\ pc = "click"
    /\ \E clicked \in BOOLEAN :
          IF clicked
          THEN pc' = "clickPause" /\ UNCHANGED warnings
          ELSE pc' = "bootCheck" /\ warnings' = warnings \cup {"click-failed"}
    /\ UNCHANGED <<args, browser, listening, shimmed, canvas, i, hadErrors, files,
                   exitCode, threw, errors, mainHist, textState, pageGlobals>>
    /\ MainOther

\* await page.waitForTimeout(250), inside the same try: a rejection is caught.
main_clickPause ==
    /\ pc = "clickPause"
    /\ \E paused \in BOOLEAN :
          warnings' = IF paused THEN warnings ELSE warnings \cup {"click-failed"}
    /\ pc' = "bootCheck"
    /\ UNCHANGED <<args, browser, listening, shimmed, canvas, i, hadErrors, files,
                   exitCode, threw, errors, mainHist, textState, pageGlobals>>
    /\ MainOther

\* Mutant: boot errors end the run before the loop.
main_bootCheck_Abort ==
    /\ pc = "bootCheck"
    /\ LET r == drain(errors) IN
        /\ errors' = r.tracker
        /\ files' = IF r.out # <<>>
                     THEN files \cup {File("errors-boot", 0, r.out)} ELSE files
        /\ lastDrain' = [at |-> "boot", idx |-> 0, out |-> r.out,
                         since |-> emittedSince,
                         fresh |-> emittedSince \ emittedBefore]
        /\ hadErrors' = (r.out # <<>>)
        /\ pc' = IF r.out # <<>> THEN "close" ELSE "loop"
    /\ emittedBefore' = emittedBefore \cup emittedSince
    /\ emittedSince' = {}
    /\ UNCHANGED <<args, browser, listening, shimmed, canvas, i, exitCode, threw>>
    /\ MainFrame

\* const bootErrors = errors.drain(); if (bootErrors.length) write
\* errors-boot.json. Then let hadErrors = false and the loop starts.
main_bootCheck ==
    /\ pc = "bootCheck"
    /\ LET r == drain(errors) IN
        /\ errors' = r.tracker
        /\ files' = IF r.out # <<>>
                     THEN files \cup {File("errors-boot", 0, r.out)} ELSE files
        /\ lastDrain' = [at |-> "boot", idx |-> 0, out |-> r.out,
                         since |-> emittedSince,
                         fresh |-> emittedSince \ emittedBefore]
    /\ emittedBefore' = emittedBefore \cup emittedSince
    /\ emittedSince' = {}
    /\ hadErrors' = FALSE
    /\ pc' = "loop"
    /\ UNCHANGED <<args, browser, listening, shimmed, canvas, i, exitCode, threw>>
    /\ MainFrame

\* Mutant: the loop test is i <= args.iterations.
main_loop_OffByOne ==
    /\ pc = "loop"
    /\ pc' = IF i <= args.iterations
             THEN (IF canvas = "null" THEN "relocate" ELSE "runActions")
             ELSE "close"
    /\ UNCHANGED <<args, browser, listening, shimmed, canvas, i, hadErrors, files,
                   exitCode, threw, errors, mainHist>>
    /\ MainFrame

\* for (...; i < args.iterations; ...) { if (!canvas) canvas = await
\* getCanvasHandle(page); ... }; after the loop, browser.close().
main_loop ==
    /\ pc = "loop"
    /\ pc' = IF i < args.iterations
             THEN (IF canvas = "null" THEN "relocate" ELSE "runActions")
             ELSE "close"
    /\ UNCHANGED <<args, browser, listening, shimmed, canvas, i, hadErrors, files,
                   exitCode, threw, errors, mainHist>>
    /\ MainFrame

\* canvas = await getCanvasHandle(page)
main_relocate ==
    /\ pc = "relocate"
    /\ canvas' \in {"null", "handle"}
    /\ pc' = "runActions"
    /\ UNCHANGED <<args, browser, listening, shimmed, i, hadErrors, files,
                   exitCode, threw, errors, mainHist>>
    /\ MainFrame

\* await runActions(page, canvas, steps)
main_runActions ==
    /\ pc = "runActions"
    /\ pc' = "pause"
    /\ UNCHANGED <<args, browser, listening, shimmed, canvas, i, hadErrors, files,
                   exitCode, threw, errors, mainHist>>
    /\ MainFrame

\* Mutant: the text state is captured before the screenshot is taken.
main_pause_StateFirst ==
    /\ pc = "pause"
    /\ pc' = "textState"
    /\ UNCHANGED <<args, browser, listening, shimmed, canvas, i, hadErrors, files,
                   exitCode, threw, errors, mainHist>>
    /\ MainFrame

\* await sleep(args.pauseMs)
main_pause ==
    /\ pc = "pause"
    /\ pc' = "screenshot"
    /\ UNCHANGED <<args, browser, listening, shimmed, canvas, i, hadErrors, files,
                   exitCode, threw, errors, mainHist>>
    /\ MainFrame

\* await captureScreenshot(page, canvas, shotPath): writes shot-<i>.png
main_screenshot ==
    /\ pc = "screenshot"
    /\ files' = files \cup {File("shot", i, <<>>)}
    /\ pc' = "textState"
    /\ UNCHANGED <<args, browser, listening, shimmed, canvas, i, hadErrors,
                   exitCode, threw, errors, mainHist>>
    /\ MainFrame

\* const textState = await page.evaluate(...); if (textState) write
\* state-<i>.json.
main_textState ==
    /\ pc = "textState"
    /\ \E g \in PageGlobalsSet :
          /\ pageGlobals' = g
          /\ textState' = evaluateTextState(g)
          /\ files' = IF truthy(evaluateTextState(g))
                      THEN files \cup {File("state", i, <<>>)} ELSE files
    /\ pc' = "drain"
    /\ UNCHANGED <<args, browser, listening, shimmed, canvas, i, hadErrors,
                   exitCode, threw, errors, mainHist, warnings>>
    /\ MainOther

\* Mutant: the loop goes on after recording fresh errors.
main_drain_NoBreak ==
    /\ pc = "drain"
    /\ LET r == drain(errors) IN
        /\ errors' = r.tracker
        /\ files' = IF r.out # <<>> THEN files \cup {File("errors", i, r.out)} ELSE files
        /\ hadErrors' = (hadErrors \/ r.out # <<>>)
        /\ lastDrain' = [at |-> "iter", idx |-> i, out |-> r.out,
                         since |-> emittedSince,
                         fresh |-> emittedSince \ emittedBefore]
    /\ i' = i + 1
    /\ pc' = "loop"
    /\ emittedBefore' = emittedBefore \cup emittedSince
    /\ emittedSince' = {}
    /\ UNCHANGED <<args, browser, listening, shimmed, canvas, exitCode, threw>>
    /\ textState' = Unset /\ pageGlobals' = NoGlobals
    /\ UNCHANGED warnings
    /\ MainOther

\* const freshErrors = errors.drain(); if (freshErrors.length) { write
\* errors-<i>.json; hadErrors = true; break }; otherwise i++.
main_drain ==
    /\ pc = "drain"
    /\ LET r == drain(errors) IN
        /\ errors' = r.tracker
        /\ lastDrain' = [at |-> "iter", idx |-> i, out |-> r.out,
                         since |-> emittedSince,
                         fresh |-> emittedSince \ emittedBefore]
        /\ IF r.out # <<>>
           THEN /\ files' = files \cup {File("errors", i, r.out)}
                /\ hadErrors' = TRUE
                /\ pc' = "close"
                /\ UNCHANGED i
           ELSE /\ i' = i + 1
                /\ pc' = "loop"
                /\ UNCHANGED <<files, hadErrors>>
    /\ emittedBefore' = emittedBefore \cup emittedSince
    /\ emittedSince' = {}
    /\ UNCHANGED <<args, browser, listening, shimmed, canvas, exitCode, threw>>
    /\ textState' = Unset /\ pageGlobals' = NoGlobals
    /\ UNCHANGED warnings
    /\ MainOther

\* await browser.close(); process.exit(hadErrors ? 1 : 0)
main_close ==
    /\ pc = "close"
    /\ browser' = "closed"
    /\ exitCode' = IF hadErrors THEN 1 ELSE 0
    /\ pc' = "exited"
    /\ UNCHANGED <<args, listening, shimmed, canvas, i, hadErrors, files,
                   threw, errors, mainHist>>
    /\ MainFrame

\* main().catch(err => { console.error(err); process.exit(1) }): the command
\* main() is suspended on rejects, or loadActions throws.
main_catch ==
    /\ pc \in ThrowPcs
    /\ threw' = TRUE
    /\ exitCode' = 1
    /\ pc' = "exited"
    /\ UNCHANGED <<args, browser, listening, shimmed, canvas, i, hadErrors, files,
                   errors, mainHist>>
    /\ MainFrame

\* The page writes a console message; when the listener is attached:
\* page.on('console', msg => { if (msg.type() !== 'error') return;
\* errors.ingest({ type: 'console.error', text: msg.text() }) })
page_console(msgType, text) ==
    /\ pc \in PageLivePcs /\ browser = "open"
    /\ IF msgType # "error"
       THEN UNCHANGED <<errors, emittedSince>>
       ELSE /\ errors' = IF listening
                         THEN ingest(errors, [type |-> "console.error", text |-> text])
                         ELSE errors
            /\ emittedSince' = emittedSince \cup {[type |-> "console.error", text |-> text]}
    /\ UNCHANGED <<mainVars, emittedBefore, lastDrain>>
    /\ MainFrame

\* The page throws an uncaught exception; when the listener is attached:
\* page.on('pageerror', err => errors.ingest({ type: 'pageerror', text: String(err) }))
page_pageerror(text) ==
    /\ pc \in PageLivePcs /\ browser = "open"
    /\ errors' = IF listening
                 THEN ingest(errors, [type |-> "pageerror", text |-> text])
                 ELSE errors
    /\ emittedSince' = emittedSince \cup {[type |-> "pageerror", text |-> text]}
    /\ UNCHANGED <<mainVars, emittedBefore, lastDrain>>
    /\ MainFrame

Next ==
    \/ main_parseArgs
    \/ main_loadActions
    \/ main_launch
    \/ main_newPage
    \/ main_addInitScript
    \/ main_goto
    \/ main_waitForGame
    \/ main_settle
    \/ main_resize
    \/ main_locate
    \/ main_click
    \/ main_clickPause
    \/ main_bootCheck
    \/ main_loop
    \/ main_relocate
    \/ main_runActions
    \/ main_pause
    \/ main_screenshot
    \/ main_textState
    \/ main_drain
    \/ main_close
    \/ main_catch
    \/ \E msgType \in {"error", "warning"}, text \in PageErrorTexts : page_console(msgType, text)
    \/ \E text \in PageErrorTexts : page_pageerror(text)

Spec == Init /\ [][Next]_vars

\* A step of main(): a synchronous stretch up to the next await, or the
\* completion (resolved or rejected) of the command it awaits.
MainStep ==
    \/ main_parseArgs
    \/ main_loadActions
    \/ main_launch
    \/ main_newPage
    \/ main_addInitScript
    \/ main_goto
    \/ main_waitForGame
    \/ main_settle
    \/ main_resize
    \/ main_locate
    \/ main_click
    \/ main_clickPause
    \/ main_bootCheck
    \/ main_loop
    \/ main_relocate
    \/ main_runActions
    \/ main_pause
    \/ main_screenshot
    \/ main_textState
    \/ main_drain
    \/ main_close
    \/ main_catch

\* main() when every command it awaits eventually completes, and node runs
\* the continuation.
SpecLive == Spec /\ WF_vars(MainStep)


\* The errors artifacts written so far.
ErrorFiles == {g \in files : g.kind \in {"errors", "errors-boot"}}

\* main() ran to its own process.exit (no usage error, no exception).
ExitedNormally == pc = "exited" /\ args.url /\ ~threw

\* C1 (as claimed): a run that ends at main's own process.exit exits non-zero
\* exactly when some console/page error was recorded by a drain, at the boot
\* check or in an iteration.
C1_ExitStatus ==
    ExitedNormally => ((exitCode # 0) <=> (ErrorFiles # {}))

\* C2: fail-fast halt. When the drain of iteration k returns a non-empty
\* batch, errors-<k>.json holds it, the loop is left at once (main is at
\* browser.close or has exited, with i = k); no artifact of a later iteration
\* ever exists beside an errors-<k>.json; a run that wrote one exits with
\* status 1; and there is at most one errors-<k>.json and one errors-boot.json.
C2_FailFast ==
    /\ (lastDrain.at = "iter" /\ lastDrain.out # <<>>) =>
          /\ File("errors", lastDrain.idx, lastDrain.out) \in files
          /\ hadErrors /\ i = lastDrain.idx /\ pc \in {"close", "exited"}
    /\ \A e \in files : e.kind = "errors" =>
          \A g \in files : g.kind \in {"shot", "state", "errors"} => g.idx <= e.idx
    /\ (pc = "exited" /\ \E e \in files : e.kind = "errors") => exitCode = 1
    /\ Cardinality({e \in files : e.kind = "errors"}) <= 1
    /\ Cardinality({e \in files : e.kind = "errors-boot"}) <= 1

\* C2 witness: two iterations were configured, boot errors were recorded,
\* iteration 0 drained a fresh error, and the run exited without iteration 1.
C2_Witness ==
    /\ ExitedNormally /\ args.iterations = 2 /\ exitCode = 1
    /\ \E e \in files : e.kind = "errors-boot"
    /\ \E e \in files : e.kind = "errors" /\ e.idx = 0
    /\ ~\E g \in files : g.idx = 1

\* C3 (as claimed): a run that launched the browser has closed it when the
\* process exits, on every exit path.
C3_BrowserClosed ==
    (pc = "exited" /\ browser # "none") => browser = "closed"

\* C4: only new content halts. The drain of iteration k stops the loop if and
\* only if the page emitted, since the previous drain, a record never emitted
\* before in the run (boot phase included); the batch it returns holds exactly
\* those records; and no record is written to two errors artifacts or twice
\* to one.
C4_OnlyNewHalts ==
    /\ lastDrain.at = "iter" =>
          /\ hadErrors <=> (lastDrain.fresh # {})
          /\ hadErrors => i = lastDrain.idx /\ pc \in {"close", "exited"}
    /\ lastDrain.at # "none" => Range(lastDrain.out) = lastDrain.fresh
    /\ \A e \in ErrorFiles :
          /\ NoDup(e.content)
          /\ \A g \in ErrorFiles : g # e => Range(g.content) \cap Range(e.content) = {}

\* C4 witness: an iteration's drain followed emissions that all repeated
\* earlier records, and the loop went on to the next iteration.
C4_Witness ==
    /\ lastDrain.at = "iter" /\ lastDrain.since # {} /\ lastDrain.fresh = {}
    /\ ~hadErrors /\ pc = "runActions" /\ i = lastDrain.idx + 1

\* The errors-boot.json artifacts written so far.
BootFiles == {g \in files : g.kind = "errors-boot"}

\* C14: boot errors do not abort the run. The boot check is the only step
\* that writes errors-boot.json: it writes it, once, with the drained batch
\* when the batch is not empty and does not write it when the batch is empty;
\* either way main goes on to the loop with i = 0 and hadErrors = false, no
\* exit status set; and the loop test enters iteration 0 whenever
\* 0 < iterations, whether or not errors-boot.json exists.
C14_BootErrorsDoNotAbort ==
    [][ /\ pc = "bootCheck" =>
              /\ pc' = "loop" /\ i' = 0 /\ ~hadErrors' /\ ~threw'
              /\ exitCode' = exitCode /\ browser' = "open"
              /\ BootFiles = {}
              /\ IF errors._errors # <<>>
                 THEN files' = files \cup {File("errors-boot", 0, errors._errors)}
                 ELSE files' = files
        /\ pc # "bootCheck" => {g \in files' : g.kind = "errors-boot"} = BootFiles
        /\ (pc = "loop" /\ i < args.iterations /\ ~hadErrors) =>
              pc' \in {"relocate", "runActions"}
      ]_vars

\* C14 witness: errors-boot.json was written and iteration 0 went through its
\* choreography and its capture.
C14_Witness ==
    /\ BootFiles # {}
    /\ File("shot", 0, <<>>) \in files
    /\ pc = "textState" /\ i = 0 /\ ~hadErrors


\* C15: optional prepare steps are non-fatal. The boot-ready wait, timed out
\* or not, is followed by the settle pause; the pre-action click and its
\* pause, failed or not, are followed by the boot check; none of them sets
\* the exit status, ends main or makes hadErrors true, and a run that reaches
\* main's own exit has status 1 exactly when hadErrors holds, whatever
\* warnings were printed. With --no-wait main never waits for the boot-ready
\* signal and never prints its warning.
C15_PrepareNonFatal ==
    [][ /\ pc = "waitForGame" =>
              /\ pc' \in {"waitForGame", "settle"}
              /\ exitCode' = exitCode /\ ~threw' /\ ~hadErrors'
        /\ pc \in {"click", "clickPause"} =>
              /\ pc' \in {pc, "clickPause", "bootCheck"}
              /\ exitCode' = exitCode /\ ~threw' /\ ~hadErrors'
        /\ (pc' = "exited" /\ args.url /\ ~threw') =>
              exitCode' = (IF hadErrors' THEN 1 ELSE 0)
        /\ ~args.waitForGame => pc' # "waitForGame" /\ "boot-timeout" \notin warnings'
        /\ ~args.clickSelector => pc' \notin {"click", "clickPause"} /\ "click-failed" \notin warnings'
      ]_vars

\* C15 witness: the boot wait timed out, the click failed, and the run went
\* through an iteration and exited with status 0.
C15_Witness ==
    /\ warnings = {"boot-timeout", "click-failed"}
    /\ ExitedNormally /\ exitCode = 0
    /\ File("shot", 0, <<>>) \in files


\* C16: textual state capture. At the end of an iteration's body the value
\* captured is what the renderer-to-text function returned when the page has
\* one; otherwise the JSON text of the global state object when there is
\* one; otherwise null. state-<i>.json exists then if and only if that value
\* is neither null nor the empty string, and before that point of iteration
\* i no state artifact of index i or more exists.
C16_TextStateHierarchy ==
    /\ pc = "drain" =>
          /\ pageGlobals \in PageGlobalsSet
          /\ pageGlobals.render_game_to_text = "returnsText" => textState = String("score: 3")
          /\ pageGlobals.render_game_to_text = "returnsEmpty" => textState = String("")
          /\ pageGlobals.render_game_to_text = "returnsNull" => textState = Null
          /\ pageGlobals.render_game_to_text = "notFunction" =>
                /\ pageGlobals.GAME_STATE = "emptyObject" => textState = String("{}")
                /\ pageGlobals.GAME_STATE = "scoreObject" => textState = String("{\"score\":3}")
                /\ pageGlobals.GAME_STATE \in {"undefined", "null"} => textState = Null
          /\ File("state", i, <<>>) \in files <=> (textState # Null /\ textState # String(""))
    /\ pc \notin {"drain", "close", "exited"} =>
          \A g \in files : g.kind = "state" => g.idx < i

\* C16 witness: the page has no renderer function but a state object, and
\* state-<i>.json was written from its JSON text.
C16_Witness ==
    /\ pc = "drain"
    /\ pageGlobals = [render_game_to_text |-> "notFunction", GAME_STATE |-> "scoreObject"]
    /\ textState = String("{\"score\":3}")
    /\ File("state", i, <<>>) \in files


\* The indices of the screenshots written so far.
ShotIndices == {g.idx : g \in {h \in files : h.kind = "shot"}}

\* C19: bounded loop and termination. A run configured with N iterations in
\* which no command failed and no iteration drained a fresh error has, at
\* exit, run the loop body exactly N times (i = N), written exactly
\* shot-0.png .. shot-(N-1).png, closed the browser and exited with status 0;
\* no run ever writes a screenshot of index N or more; and when every awaited
\* command eventually completes, every run reaches its exit.
C19_BoundedLoopTerminates ==
    /\ [](/\ (ExitedNormally /\ ~hadErrors) =>
                /\ i = args.iterations
                /\ ShotIndices = 0..(args.iterations - 1)
                /\ browser = "closed" /\ exitCode = 0
          /\ \A n \in ShotIndices : n < args.iterations /\ n <= i)
    /\ <>(pc = "exited")

\* C19 witness: two iterations were configured and the run exited with
\* status 0 after writing shot-0.png and shot-1.png.
C19_Witness ==
    /\ ExitedNormally /\ ~hadErrors /\ args.iterations = 2
    /\ ShotIndices = {0, 1} /\ i = 2
    /\ browser = "closed" /\ exitCode = 0


\* ---------------------------------------------------------------------------
\* C22  Prepare precedes Navigate: the navigation command is issued only with
\* the console and pageerror listeners attached and the virtual-time shim
\* registered as an init script, so at every position where the page is live
\* both are in place, and every error record the page has emitted has its key
\* in the tracker.
C22_PrepareBeforeNavigate ==
    /\ [](pc \in PageLivePcs => listening /\ shimmed)
    /\ [](\A r \in emittedBefore \cup emittedSince : JSONstringify(r) \in errors._seen)
    /\ [][ (pc # "goto" /\ pc' = "goto") => (listening' /\ shimmed') ]_vars

\* C22 witness: an error emitted while the navigation is still in flight.
C22_Witness ==
    /\ pc = "goto" /\ emittedSince # {}
    /\ listening /\ shimmed

\* The order of the awaited commands of one loop iteration: each position
\* with the positions main() can go to from it (exited: the command rejected).
IterationOrder ==
    {<<"loop", "relocate">>, <<"loop", "runActions">>, <<"loop", "close">>,
     <<"relocate", "runActions">>, <<"relocate", "exited">>,
     <<"runActions", "pause">>, <<"runActions", "exited">>,
     <<"pause", "screenshot">>,
     <<"screenshot", "textState">>, <<"screenshot", "exited">>,
     <<"textState", "drain">>, <<"textState", "exited">>,
     <<"drain", "loop">>, <<"drain", "close">>}

IterationPcs == {"loop", "relocate", "runActions", "pause", "screenshot", "textState", "drain"}

\* ---------------------------------------------------------------------------
\* C23  Within an iteration the controller performs, one after the other, the
\* choreography, the pause, the screenshot write, the text state capture and
\* write, and the tracker drain; the iteration index advances only in the step
\* that completes the drain; each artifact of iteration i is written by its
\* own step; so whenever state-<i>.json or errors-<i>.json exists, shot-<i>.png
\* exists.
C23_IterationOrder ==
    /\ [](\A g \in files : g.kind \in {"state", "errors"} =>
               File("shot", g.idx, <<>>) \in files)
    /\ [][ /\ (pc \in IterationPcs /\ pc' # pc) => <<pc, pc'>> \in IterationOrder
           /\ i' # i => (pc = "drain" /\ i' = i + 1 /\ pc' = "loop")
           /\ \A g \in files' \ files :
                 /\ g.idx = i
                 /\ g.kind = "shot" => pc = "screenshot"
                 /\ g.kind = "state" => pc = "textState"
                 /\ g.kind = "errors" => pc = "drain"
         ]_vars

\* C23 witness: the second iteration has issued its first command, the first
\* one having left a screenshot and a text state.
C23_Witness ==
    /\ i = 1 /\ pc = "pause"
    /\ File("state", 0, <<>>) \in files
    /\ File("shot", 0, <<>>) \in files

\* C29: every error record the page has emitted while the session was open
\* is, when the process has exited, in exactly one errors artifact
\* (errors-boot.json or an errors-<i>.json), at whatever await of main() the
\* listener ran.
C29_EveryErrorWritten ==
    pc = "exited" =>
        \A r \in emittedBefore \cup emittedSince :
            Cardinality({g \in ErrorFiles : r \in Range(g.content)}) = 1

-----------------------------------------------------------------------------
(* The game: SpawnSystem, gameState and the enemies of a GameScene          *)

\* The longest play SpecDifficulty follows, in acceleration ticks (seconds);
\* the longest play and the most enemies alive SpecGame follows.
MaxSeconds == 201

MaxPlaySeconds == 1

MaxEnemies == 1

\* The most fragments a play followed by SpecGame collects.
MaxScore == 2

\* The time the scene's clock advances in one update of the model, in ms.
FrameMs == 1000

\* Constants.js. Multipliers are in thousandths (1.0 is 1000, the rate 0.015
\* is 15), SPEED_MULT and SLOW_FACTOR in tenths, times in ms, speeds in design
\* pixels per second (PX = 1).
ENEMY ==
    [BASE_SPEED |-> 100, SPAWN_INTERVAL_START |-> 1200, SPAWN_INTERVAL_MIN |-> 250,
     ACCELERATION_RATE |-> 15, SPAWN_ACCELERATION |-> 15,
     MAX_SPEED_MULTIPLIER |-> 4000,
     DATA_STREAM |-> [SPEED_MULT |-> 16],
     CODE_BLOCK |-> [SPEED_MULT |-> 7],
     SINGULARITY_NODE |-> [SPEED_MULT |-> 12, MIN_SPAWN_TIME |-> 15000]]

FRAGMENT ==
    [SPAWN_INTERVAL |-> 3000, SLOW_DURATION |-> 2000, SLOW_FACTOR |-> 7,
     MAX_ON_SCREEN |-> 5]

MathMin(a, b) == IF a <= b THEN a ELSE b

MathMax(a, b) == IF a >= b THEN a ELSE b

\* new SpawnSystem(scene, ...) after gameState.reset(): no enemy, no fragment,
\* the three looping timers and the delayed initial spawn pending. A speed is
\* kept in units of 1/10000 pixel per second (BASE_SPEED x multiplier in
\* thousandths x SPEED_MULT in tenths). slowTimers holds the time left of
\* every pending slowdown delayedCall, handlePending whether the one
\* this._slowdownTimer refers to is among them (then it is the last).
\* sinceCollect, ends and restarted are history: the time since the most
\* recent collection (-1: none yet), the SLOWDOWN_END events emitted since
\* it, whether it came while a slowdown was active. died and overs count the
\* PLAYER_DIED and GAME_OVER events emitted, overSurvival and overMultiplier
\* are the survivalTime the GAME_OVER event carried and the multiplier then
\* (-1: no such event yet).
GameInit ==
    /\ game = [pc |-> "on", gameOver |-> FALSE, timers |-> TRUE, initialSpawn |-> TRUE,
               elapsedTime |-> 0, currentSpeedMultiplier |-> 1000,
               currentSpawnInterval |-> ENEMY.SPAWN_INTERVAL_START,
               enemyTimerDelay |-> ENEMY.SPAWN_INTERVAL_START,
               enemies |-> <<>>, fragments |-> 0,
               isSlowed |-> FALSE, slowTimers |-> <<>>, handlePending |-> FALSE,
               score |-> 0, bestScore |-> 0, fragmentsCollected |-> 0,
               survivalTime |-> 0,
               sinceCollect |-> -1, ends |-> 0, restarted |-> FALSE,
               died |-> 0, overs |-> 0, overSurvival |-> -1, overMultiplier |-> -1]
    /\ errors = NewTracker /\ TrackerHistIdle /\ MainIdle /\ ActIdle
    /\ LocIdle /\ ShotIdle /\ CliIdle /\ ShimIdle /\ AppIdle

GameFrame == UNCHANGED <<trackerVars, trackerHist, mainVars, mainHist, actVars,
                         loc, shot, cli, shim, appVars>>

\* Mutant: the multiplier and the interval are not capped.
accelerate_NoCap(limit) ==
    /\ game.pc = "on" /\ game.timers
    /\ game.elapsedTime < limit * 1000
    /\ LET t == game.elapsedTime + 1000
           interval == ENEMY.SPAWN_INTERVAL_START - (t \div 1000) * ENEMY.SPAWN_ACCELERATION
       IN  game' = [game EXCEPT
                      !.elapsedTime = t,
                      !.survivalTime = t \div 1000,
                      !.currentSpeedMultiplier = 1000 + (t \div 1000) * ENEMY.ACCELERATION_RATE,
                      !.currentSpawnInterval = interval,
                      !.enemyTimerDelay = interval]
    /\ GameFrame

\* accelerate(), the callback of accelTimer (every 1000 ms until destroy()
\* removes the timer), followed here for `limit` seconds of play.
accelerate(limit) ==
    /\ game.pc = "on" /\ game.timers
    /\ game.elapsedTime < limit * 1000
    /\ LET t == game.elapsedTime + 1000
           interval == MathMax(ENEMY.SPAWN_INTERVAL_START
                                  - (t \div 1000) * ENEMY.SPAWN_ACCELERATION,
                               ENEMY.SPAWN_INTERVAL_MIN)
       IN  game' = [game EXCEPT
                      !.elapsedTime = t,
                      !.survivalTime = t \div 1000,
                      !.currentSpeedMultiplier =
                          MathMin(1000 + (t \div 1000) * ENEMY.ACCELERATION_RATE,
                                  ENEMY.MAX_SPEED_MULTIPLIER),
                      !.currentSpawnInterval = interval,
                      !.enemyTimerDelay = interval]
    /\ GameFrame

DifficultyNext == accelerate(MaxSeconds)

SpecDifficulty == GameInit /\ [][DifficultyNext]_vars

\* C26: difficulty caps. After any number of accelerate() ticks the speed
\* multiplier is within [1.0, MAX_SPEED_MULTIPLIER] and no tick lowers it, the
\* spawn interval is within [SPAWN_INTERVAL_MIN, SPAWN_INTERVAL_START] and no
\* tick raises it, and the enemy timer's delay equals the spawn interval.
C26_DifficultyCaps ==
    /\ [](/\ 1000 <= game.currentSpeedMultiplier
          /\ game.currentSpeedMultiplier <= ENEMY.MAX_SPEED_MULTIPLIER
          /\ ENEMY.SPAWN_INTERVAL_MIN <= game.currentSpawnInterval
          /\ game.currentSpawnInterval <= ENEMY.SPAWN_INTERVAL_START
          /\ game.enemyTimerDelay = game.currentSpawnInterval)
    /\ [][ /\ game'.currentSpeedMultiplier >= game.currentSpeedMultiplier
           /\ game'.currentSpawnInterval <= game.currentSpawnInterval ]_vars

\* C26 witness: both caps are reached, and a further tick has run.
C26_Witness ==
    /\ game.pc = "on"
    /\ game.currentSpeedMultiplier = ENEMY.MAX_SPEED_MULTIPLIER
    /\ game.currentSpawnInterval = ENEMY.SPAWN_INTERVAL_MIN
    /\ 1000 + (game.elapsedTime \div 1000) * ENEMY.ACCELERATION_RATE > ENEMY.MAX_SPEED_MULTIPLIER

\* What Math.random() gives _pickEnemyType: below 0.15, from 0.15 to below
\* 0.6, 0.6 or more.
Rands == {"lt15", "lt60", "ge60"}

\* _pickEnemyType()
pickEnemyType(t, rand) ==
    IF t >= ENEMY.SINGULARITY_NODE.MIN_SPAWN_TIME /\ rand = "lt15"
    THEN "singularity_node"
    ELSE IF rand \in {"lt15", "lt60"} THEN "data_stream" ELSE "code_block"

\* The switch on the type in _getSpawnPosition: speedMult.
speedMultOf(type) ==
    CASE type = "data_stream"      -> ENEMY.DATA_STREAM.SPEED_MULT
      [] type = "code_block"       -> ENEMY.CODE_BLOCK.SPEED_MULT
      [] type = "singularity_node" -> ENEMY.SINGULARITY_NODE.SPEED_MULT

\* _getSpawnPosition(type): finalSpeed = speed * speedMult * slowFactor, the
\* length of (vx, vy) whatever the edge and the target.
finalSpeed(g, type) ==
    LET speed == ENEMY.BASE_SPEED * g.currentSpeedMultiplier IN
    IF g.isSlowed
    THEN (speed * speedMultOf(type) * FRAGMENT.SLOW_FACTOR) \div 10
    ELSE speed * speedMultOf(type)

\* new Enemy(scene, type, x, y, vx, vy, playerSprite): the velocity and the
\* base velocity are (vx, vy); kept here by their length. normal is history:
\* base speed times the multiplier at the spawn times the type multiplier.
NewEnemy(g, type) ==
    [type |-> type, v |-> finalSpeed(g, type), baseV |-> finalSpeed(g, type),
     normal |-> ENEMY.BASE_SPEED * g.currentSpeedMultiplier * speedMultOf(type)]

\* Enemy.applySlowdown(factor)
Enemy_applySlowdown(e, factor) ==
    IF e.type = "singularity_node" THEN e
    ELSE [e EXCEPT !.v = (e.baseV * factor) \div 10]

\* Enemy.restoreSpeed()
Enemy_restoreSpeed(e) ==
    IF e.type = "singularity_node" THEN e ELSE [e EXCEPT !.v = e.baseV]

\* Mutant: addScore() does not raise bestScore.
addScore_NoBest(s, points) ==
    [s EXCEPT !.score = @ + points,
              !.fragmentsCollected = @ + points]

\* GameState.addScore(points), on any record with the three fields.
addScore(s, points) ==
    [s EXCEPT !.score = @ + points,
              !.fragmentsCollected = @ + points,
              !.bestScore = IF s.score + points > @ THEN s.score + points ELSE @]

\* Mutant: spawnFragment() does not look at gameOver.
spawnFragment_AfterGameOver(g) ==
    IF g.fragments >= FRAGMENT.MAX_ON_SCREEN THEN g
    ELSE [g EXCEPT !.fragments = @ + 1]

\* Mutant: fragments are spawned up to one past the cap.
spawnFragment_OnePast(g) ==
    IF g.gameOver THEN g
    ELSE IF g.fragments > FRAGMENT.MAX_ON_SCREEN THEN g
    ELSE [g EXCEPT !.fragments = @ + 1]

\* spawnFragment(): this.fragments by its length.
spawnFragment(g) ==
    IF g.gameOver THEN g
    ELSE IF g.fragments >= FRAGMENT.MAX_ON_SCREEN THEN g
    ELSE [g EXCEPT !.fragments = @ + 1]

\* Mutant: the previous slowdown timer is left pending.
applySlowdown_KeepTimer(g) ==
    [g EXCEPT !.isSlowed = TRUE,
              !.enemies = [k \in DOMAIN g.enemies |->
                              Enemy_applySlowdown(g.enemies[k], FRAGMENT.SLOW_FACTOR)],
              !.slowTimers = Append(g.slowTimers, FRAGMENT.SLOW_DURATION),
              !.handlePending = TRUE]

\* applySlowdown(): isSlowed, every enemy slowed from its base velocity, the
\* timer this._slowdownTimer refers to removed, a new delayedCall added.
applySlowdown(g) ==
    [g EXCEPT !.isSlowed = TRUE,
              !.enemies = [k \in DOMAIN g.enemies |->
                              Enemy_applySlowdown(g.enemies[k], FRAGMENT.SLOW_FACTOR)],
              !.slowTimers =
                  Append(IF g.handlePending
                         THEN SubSeq(g.slowTimers, 1, Len(g.slowTimers) - 1)
                         ELSE g.slowTimers,
                         FRAGMENT.SLOW_DURATION),
              !.handlePending = TRUE]

\* scene.time.delayedCall(500, () => this.spawnFragment()) fires.
initialSpawn_fire ==
    /\ game.pc = "on" /\ game.timers /\ game.initialSpawn
    /\ game' = [spawnFragment(game) EXCEPT !.initialSpawn = FALSE]
    /\ GameFrame

\* fragmentTimer fires (every SPAWN_INTERVAL until destroy()).
fragmentTimer_fire ==
    /\ game.pc = "on" /\ game.timers
    /\ game' = spawnFragment(game)
    /\ GameFrame

\* enemyTimer fires: spawnEnemy().
spawnEnemy(rand) ==
    /\ game.pc = "on" /\ game.timers
    /\ Len(game.enemies) < MaxEnemies
    /\ game' = IF game.gameOver THEN game
               ELSE [game EXCEPT !.enemies =
                        Append(@, NewEnemy(game, pickEnemyType(game.elapsedTime, rand)))]
    /\ GameFrame

\* GameScene.update(): the player overlaps a fragment; collectFragment(fragment)
\* calls scoreSystem.onAddScore(1), applySlowdown() and
\* removeFragment(fragment).
collectFragment ==
    /\ game.pc = "on" /\ game.timers /\ ~game.gameOver
    /\ game.fragments > 0
    /\ game.score < MaxScore
    /\ game' = [applySlowdown(addScore(game, 1)) EXCEPT !.fragments = @ - 1,
                                           !.sinceCollect = 0,
                                           !.ends = 0,
                                           !.restarted = game.isSlowed]
    /\ GameFrame

\* The scene's clock advances by FrameMs: every pending delayedCall whose
\* delay has elapsed runs: isSlowed = false, SLOWDOWN_END, restoreSpeed() on
\* every enemy.
clock_update ==
    /\ game.pc = "on" /\ game.timers
    /\ game.slowTimers # <<>>
    /\ LET left  == [k \in DOMAIN game.slowTimers |-> game.slowTimers[k] - FrameMs]
           due   == {k \in DOMAIN left : left[k] <= 0}
           kept  == SelectSeq(left, LAMBDA r : r > 0)
       IN  game' = IF due = {}
                   THEN [game EXCEPT !.slowTimers = left,
                                     !.sinceCollect = @ + FrameMs]
                   ELSE [game EXCEPT !.slowTimers = kept,
                                     !.handlePending = (@ /\ Len(left) \notin due),
                                     !.isSlowed = FALSE,
                                     !.ends = @ + Cardinality(due),
                                     !.enemies = [k \in DOMAIN game.enemies |->
                                                     Enemy_restoreSpeed(game.enemies[k])],
                                     !.sinceCollect = @ + FrameMs]
    /\ GameFrame

\* SpawnSystem.update(): an enemy that is off screen is destroyed and removed.
update_offScreen(k) ==
    /\ game.pc = "on" /\ game.timers /\ ~game.gameOver
    /\ k \in DOMAIN game.enemies
    /\ game' = [game EXCEPT !.enemies = SubSeq(@, 1, k - 1) \o SubSeq(@, k + 1, Len(@))]
    /\ GameFrame

\* GameScene.update(): the player overlaps an enemy; triggerGameOver() sets
\* gameOver and emits PLAYER_DIED and GAME_OVER { score, survivalTime }.
triggerGameOver ==
    /\ game.pc = "on" /\ game.timers /\ ~game.gameOver
    /\ game.enemies # <<>>
    /\ game' = [game EXCEPT !.gameOver = TRUE,
                            !.died = @ + 1, !.overs = @ + 1,
                            !.overSurvival = game.survivalTime,
                            !.overMultiplier = game.currentSpeedMultiplier]
    /\ GameFrame

\* 400 ms after the game is over: spawnSystem.destroy(), and the scene ends.
destroy ==
    /\ game.pc = "on" /\ game.timers /\ game.gameOver
    /\ game' = [game EXCEPT !.timers = FALSE, !.initialSpawn = FALSE,
                            !.slowTimers = <<>>, !.handlePending = FALSE,
                            !.enemies = <<>>, !.fragments = 0]
    /\ GameFrame

GameNext ==
    \/ initialSpawn_fire
    \/ fragmentTimer_fire
    \/ \E rand \in Rands : spawnEnemy(rand)
    \/ accelerate(MaxPlaySeconds)
    \/ collectFragment
    \/ clock_update
    \/ \E k \in 1..MaxEnemies : update_offScreen(k)
    \/ triggerGameOver
    \/ destroy

SpecGame == GameInit /\ [][GameNext]_vars

\* C25: the number of fragments on screen never exceeds
\* FRAGMENT.MAX_ON_SCREEN, whatever the order of fragment timer ticks, the
\* delayed initial spawn, collections and the end of the game.
C25_FragmentCap ==
    game.pc = "on" => game.fragments <= FRAGMENT.MAX_ON_SCREEN

\* C25 witness: the cap is reached, the initial spawn and a collection
\* having happened.
C25_Witness ==
    /\ game.pc = "on" /\ game.fragments = FRAGMENT.MAX_ON_SCREEN
    /\ ~game.initialSpawn /\ game.sinceCollect >= 0

\* C27: whenever no slowdown is active, every non-homing enemy alive moves at
\* its normal speed (base speed times the speed multiplier at its spawn times
\* its type multiplier), enemies spawned during a slowdown included; and while
\* a slowdown is active every non-homing enemy moves at exactly SLOW_FACTOR
\* times its normal speed.
C27_SlowdownSpeeds ==
    game.pc = "on" =>
        \A k \in DOMAIN game.enemies :
            game.enemies[k].type # "singularity_node" =>
                IF game.isSlowed
                THEN game.enemies[k].v * 10 = game.enemies[k].normal * FRAGMENT.SLOW_FACTOR
                ELSE game.enemies[k].v = game.enemies[k].normal

C31_FrozenAfterGameOver ==
    (game.pc = "on" /\ game.gameOver) =>
        /\ game.survivalTime = game.overSurvival
        /\ game.currentSpeedMultiplier = game.overMultiplier

\* C32: PLAYER_DIED and GAME_OVER are each emitted at most once in a play,
\* and a step taken with gameOver set spawns no enemy and no fragment,
\* collects no fragment, leaves the score alone and emits neither event.
C32_NothingAfterGameOver ==
    /\ [](game.pc = "on" => game.died <= 1 /\ game.overs <= 1)
    /\ [][ (game.pc = "on" /\ game.gameOver) =>
              /\ Len(game'.enemies) <= Len(game.enemies)
              /\ game'.fragments <= game.fragments
              /\ game'.sinceCollect >= game.sinceCollect
              /\ game'.score = game.score
              /\ game'.fragmentsCollected = game.fragmentsCollected
              /\ game'.died = game.died /\ game'.overs = game.overs
         ]_vars

\* C32 witness: the game is over and the timers still run, with an enemy and
\* a fragment on screen and a fragment collected before.
C32_Witness ==
    /\ game.pc = "on" /\ game.gameOver /\ game.timers
    /\ game.overs = 1 /\ game.died = 1
    /\ game.score > 0 /\ game.fragments > 0 /\ game.enemies # <<>>

-----------------------------------------------------------------------------
(* EventBus: on, off, emit and removeAll for one event                      *)

\* The most listeners registered from outside an emit, and the most emits
\* followed.
MaxListeners == 2

MaxEmits == 2

\* The callbacks registered: each is a function, named by what it does when
\* called: return, throw, register another listener for the event (on),
\* remove itself (off), or empty the bus (removeAll).
Callbacks == {"returns", "throws", "adds", "removesSelf", "removesAll"}

\* new EventBus(): this.listeners = {}. hasKey is whether listeners[event]
\* exists, listeners its array. An emit in progress is at index k of the
\* array forEach was called on (arr, with the length it had then). calls are
\* the callbacks the current or the most recent emit has invoked, in order;
\* result is what that emit did: "pending", "bus" (returned this), "threw".
BusInit ==
    /\ bus = [pc |-> "idle", hasKey |-> FALSE, listeners |-> <<>>,
              arr |-> <<>>, k |-> 0, calls |-> <<>>, result |-> "none", emits |-> 0]
    /\ errors = NewTracker /\ TrackerHistIdle /\ MainIdle /\ ActIdle
    /\ LocIdle /\ ShotIdle /\ CliIdle /\ ShimIdle /\ GameIdle /\ SessionIdle

BusFrame == UNCHANGED <<trackerVars, trackerHist, mainVars, mainHist, actVars,
                        loc, shot, cli, shim, game, gameState, app>>

\* on(event, callback) on the listener state b
on(b, callback) ==
    [b EXCEPT !.hasKey = TRUE, !.listeners = Append(b.listeners, callback)]

\* off(event, callback): a new, filtered array replaces the old one.
off(b, callback) ==
    IF ~b.hasKey THEN b
    ELSE [b EXCEPT !.listeners = SelectSeq(b.listeners, LAMBDA cb : cb # callback)]

\* removeAll()
removeAll(b) == [b EXCEPT !.hasKey = FALSE, !.listeners = <<>>]

\* on() called between emits.
bus_on(callback) ==
    /\ bus.pc = "idle" /\ Len(bus.listeners) < MaxListeners
    /\ bus' = on(bus, callback)
    /\ BusFrame

\* off() called between emits.
bus_off(callback) ==
    /\ bus.pc = "idle"
    /\ bus' = off(bus, callback)
    /\ BusFrame

\* emit(event, data): without an array for the event, return this; otherwise
\* forEach starts on the array, with its present length.
emit_start ==
    /\ bus.pc = "idle" /\ bus.emits < MaxEmits
    /\ bus' = IF ~bus.hasKey
              THEN [bus EXCEPT !.calls = <<>>, !.arr = <<>>, !.result = "bus",
                               !.emits = @ + 1]
              ELSE [bus EXCEPT !.pc = "emitting", !.arr = bus.listeners, !.k = 1,
                               !.calls = <<>>, !.result = "pending", !.emits = @ + 1]
    /\ BusFrame

\* What calling a callback does to the bus.
invoke(b, callback) ==
    CASE callback = "adds"        -> on(b, "returns")
      [] callback = "removesSelf" -> off(b, callback)
      [] callback = "removesAll"  -> removeAll(b)
      [] OTHER                    -> b

\* Mutant: the callback is called outside try/catch.
emit_call_NoCatch ==
    /\ bus.pc = "emitting" /\ bus.k <= Len(bus.arr)
    /\ LET cb == bus.arr[bus.k] IN
       bus' = IF cb = "throws"
              THEN [bus EXCEPT !.calls = Append(@, cb), !.pc = "idle", !.result = "threw"]
              ELSE [invoke(bus, cb) EXCEPT !.calls = Append(@, cb), !.k = @ + 1]
    /\ BusFrame

\* One turn of forEach: try { callback(data) } catch (err) { console.error }
emit_call ==
    /\ bus.pc = "emitting" /\ bus.k <= Len(bus.arr)
    /\ LET cb == bus.arr[bus.k] IN
       bus' = [invoke(bus, cb) EXCEPT !.calls = Append(@, cb), !.k = @ + 1]
    /\ BusFrame

\* forEach is through: return this.
emit_return ==
    /\ bus.pc = "emitting" /\ bus.k > Len(bus.arr)
    /\ bus' = [bus EXCEPT !.pc = "idle", !.result = "bus"]
    /\ BusFrame

BusNext ==
    \/ \E callback \in Callbacks : bus_on(callback)
    \/ \E callback \in Callbacks : bus_off(callback)
    \/ emit_start
    \/ emit_call
    \/ emit_return

SpecBus == BusInit /\ [][BusNext]_vars

\* C35: emit invokes every listener registered for the event when it starts,
\* once each and in registration order, also after a listener that throws;
\* it never throws, and it returns the bus. While it runs it has invoked the
\* listeners before its position; when it has returned it has invoked
\* exactly the array it started on.
C35_EmitInvokesAll ==
    /\ bus.pc # "off" => bus.result # "threw"
    /\ bus.pc = "emitting" =>
          /\ bus.result = "pending"
          /\ bus.calls = SubSeq(bus.arr, 1, bus.k - 1)
    /\ (bus.pc = "idle" /\ bus.emits > 0) =>
          /\ bus.result = "bus"
          /\ bus.calls = bus.arr

\* C35 witness: an emit has returned after invoking its two listeners, the
\* first of which threw and the second of which removed itself.
C35_Witness ==
    /\ bus.pc = "idle" /\ bus.result = "bus"
    /\ bus.calls = <<"throws", "removesSelf">>
    /\ bus.listeners = <<"throws">>

\* ---------------------------------------------------------------------
\* The session: GameState, the two scenes and the audio bridge across
\* game overs and restarts (GameState.js, GameScene.create and
\* triggerGameOver, GameOverScene, AudioManager, AudioBridge).
\* Time is in milliseconds.
\* ---------------------------------------------------------------------

\* Handler invocations of the Play Again button and the space key that one
\* showing of GameOverScene receives.
MaxPresses == 2

\* AudioManager.playMusic: setTimeout(..., 100)
PLAY_DELAY == 100
\* AudioBridge GAME_OVER: setTimeout(..., 500)
GAMEOVER_THEME_DELAY == 500
\* AudioBridge GAME_RESTART: setTimeout(..., 400)
GAMEPLAY_BGM_DELAY == 400
\* GameScene.triggerGameOver: delayedCall(400, ...)
GAME_OVER_DELAY == 400
\* TRANSITION.FADE_DURATION
FADE_DURATION == 350

\* The step of the clock: the smallest gap between two deadlines above, so
\* that every order of deadlines and inputs has a run.
StepMs == GAMEPLAY_BGM_DELAY - FADE_DURATION

Patterns == {"gameplayBGM", "gameOverTheme"}

\* A pending callback: a setTimeout, a delayedCall or a camera fade.
Timer(kind, left, pattern, by) ==
    [kind |-> kind, left |-> left, pattern |-> pattern, by |-> by]

\* GameState.reset()
reset(s) ==
    [s EXCEPT !.score = 0,
              !.bestScore = IF s.bestScore # 0 THEN s.bestScore ELSE 0,
              !.started = FALSE,
              !.gameOver = FALSE,
              !.survivalTime = 0,
              !.fragmentsCollected = 0,
              !.currentSpeedMultiplier = 1000,
              !.isSlowed = FALSE,
              !.isMuted = FALSE]

\* new GameState(): bestScore = 0, then reset().
NewGameState ==
    reset([pc |-> "on", score |-> 0, bestScore |-> 0, started |-> FALSE,
           gameOver |-> FALSE, survivalTime |-> 0, fragmentsCollected |-> 0,
           currentSpeedMultiplier |-> 1000, isSlowed |-> FALSE,
           isMuted |-> FALSE])

\* GameScene.create(): gameState.reset() first, gameState.started = true last.
GameScene_create(s) == [reset(s) EXCEPT !.started = TRUE]

\* The page has loaded, initAudioBridge() has run, no input has come yet and
\* GameScene has been created. localStorage holds what an earlier visit left.
SessionInit ==
    /\ gameState = GameScene_create(NewGameState)
    /\ \E saved \in {"null", "true", "false"} :
          app = [pc |-> "on", scene |-> "GameScene",
                 transitioning |-> FALSE, spaceArmed |-> FALSE,
                 presses |-> 0, restarts |-> 0, starts |-> 0,
                 audioInitiated |-> FALSE, initialized |-> FALSE,
                 currentMusic |-> "null", timers |-> {},
                 savedMute |-> saved,
                 playerMuted |-> FALSE, stopped |-> FALSE,
                 restartStarted |-> FALSE]
    /\ errors = NewTracker /\ TrackerHistIdle /\ MainIdle /\ ActIdle
    /\ LocIdle /\ ShotIdle /\ CliIdle /\ ShimIdle /\ GameIdle /\ BusIdle

SessionFrame == UNCHANGED <<trackerVars, trackerHist, mainVars, mainHist, actVars,
                            loc, shot, cli, shim, game, bus>>

\* AudioManager.stopMusic(): does not touch the timeout of a playMusic().
stopMusic(a) ==
    IF ~a.initialized THEN a
    ELSE [a EXCEPT !.currentMusic = "null", !.stopped = TRUE]

\* AudioManager.playMusic(patternFn): stopMusic(), then the pattern starts
\* after 100 ms.
playMusic(a, patternFn, by) ==
    IF ~a.initialized THEN a
    ELSE [stopMusic(a) EXCEPT
             !.timers = @ \cup {Timer("start", PLAY_DELAY, patternFn, by)},
             !.stopped = FALSE]

\* initOnInteraction(), on the pair of gameState and the rest; ok says
\* whether initStrudel() returns.
initOnInteraction(st, ok) ==
    IF st.a.audioInitiated THEN st
    ELSE LET gs1 == IF st.a.savedMute = "true"
                    THEN [st.gs EXCEPT !.isMuted = TRUE] ELSE st.gs
             a1 == [st.a EXCEPT !.audioInitiated = TRUE, !.initialized = ok]
         IN [gs |-> gs1,
             a |-> IF ~gs1.isMuted THEN playMusic(a1, "gameplayBGM", "init")
                   ELSE a1]

\* Mutant: restartGame() without the _transitioning test.
restartGame_NoGuard(a) ==
    [stopMusic([a EXCEPT !.transitioning = TRUE, !.restarts = @ + 1])
        EXCEPT !.timers = @ \cup {Timer("MUSIC_GAMEPLAY", GAMEPLAY_BGM_DELAY, "none", "none"),
                                  Timer("fadeout", FADE_DURATION, "none", "none")}]

\* GameOverScene.restartGame(), with the bridge's GAME_RESTART listener:
\* MUSIC_STOP now, MUSIC_GAMEPLAY in 400 ms; the fade-out completes in 350.
restartGame(a) ==
    IF a.transitioning THEN a
    ELSE [stopMusic([a EXCEPT !.transitioning = TRUE, !.restarts = @ + 1])
             EXCEPT !.timers = @ \cup {Timer("MUSIC_GAMEPLAY", GAMEPLAY_BGM_DELAY, "none", "none"),
                                       Timer("fadeout", FADE_DURATION, "none", "none")}]

Here == [gs |-> gameState, a |-> app]

\* A pointerdown or keydown that no other handler takes: the first one runs
\* initOnInteraction().
window_interaction(ok) ==
    /\ app.pc = "on" /\ ~app.audioInitiated
    /\ LET st == initOnInteraction(Here, ok)
       IN gameState' = st.gs /\ app' = st.a
    /\ SessionFrame

\* keydown of M: initOnInteraction() was registered first, then the toggle.
window_keydown_M(ok) ==
    /\ app.pc = "on"
    /\ LET st == initOnInteraction(Here, ok)
           muted == ~st.gs.isMuted
           a1 == [st.a EXCEPT !.savedMute = IF muted THEN "true" ELSE "false",
                              !.playerMuted = muted,
                              !.restartStarted = FALSE]
       IN /\ gameState' = [st.gs EXCEPT !.isMuted = muted]
          /\ app' = IF muted THEN stopMusic(a1)
                    ELSE IF a1.audioInitiated /\ ~st.gs.gameOver
                         THEN playMusic(a1, "gameplayBGM", "key")
                    ELSE IF a1.audioInitiated /\ st.gs.gameOver
                         THEN playMusic(a1, "gameOverTheme", "key")
                    ELSE a1
    /\ SessionFrame

\* GameScene.collectFragment -> ScoreSystem.onAddScore(1)
scene_collectFragment ==
    /\ app.pc = "on" /\ app.scene = "GameScene" /\ ~gameState.gameOver
    /\ gameState.score < MaxScore
    /\ gameState' = addScore(gameState, 1)
    /\ UNCHANGED app
    /\ SessionFrame

\* GameScene.triggerGameOver(), with the bridge's GAME_OVER listener.
scene_triggerGameOver ==
    /\ app.pc = "on" /\ app.scene = "GameScene" /\ ~gameState.gameOver
    /\ gameState' = [gameState EXCEPT !.gameOver = TRUE]
    /\ app' = [stopMusic(app) EXCEPT
                  !.timers = @ \cup {Timer("MUSIC_GAMEOVER", GAMEOVER_THEME_DELAY, "none", "none"),
                                     Timer("gameover", GAME_OVER_DELAY, "none", "none")}]
    /\ SessionFrame

Due(kind) == {t \in app.timers : t.kind = kind /\ t.left = 0}

\* The timeout of playMusic(): currentMusic = patternFn(), unless it throws.
timeout_start(ok) ==
    /\ app.pc = "on"
    /\ \E t \in Due("start") :
          app' = [app EXCEPT
                     !.timers = @ \ {t},
                     !.currentMusic = IF ok THEN t.pattern ELSE @,
                     !.restartStarted = @ \/ (ok /\ t.by = "restart" /\ app.playerMuted)]
    /\ UNCHANGED gameState
    /\ SessionFrame

\* The timeouts of the bridge: emit MUSIC_GAMEOVER, emit MUSIC_GAMEPLAY.
timeout_MUSIC_GAMEOVER ==
    /\ app.pc = "on"
    /\ \E t \in Due("MUSIC_GAMEOVER") :
          LET a1 == [app EXCEPT !.timers = @ \ {t}]
          IN app' = IF ~gameState.isMuted
                    THEN playMusic(a1, "gameOverTheme", "gameover") ELSE a1
    /\ UNCHANGED gameState
    /\ SessionFrame

timeout_MUSIC_GAMEPLAY ==
    /\ app.pc = "on"
    /\ \E t \in Due("MUSIC_GAMEPLAY") :
          LET a1 == [app EXCEPT !.timers = @ \ {t}]
          IN app' = IF ~gameState.isMuted
                    THEN playMusic(a1, "gameplayBGM", "restart") ELSE a1
    /\ UNCHANGED gameState
    /\ SessionFrame

\* The delayed call of triggerGameOver(): scene.start('GameOverScene'), whose
\* create() clears _transitioning and registers the two handlers.
delayed_gameover ==
    /\ app.pc = "on"
    /\ \E t \in Due("gameover") :
          app' = [app EXCEPT !.timers = @ \ {t},
                             !.scene = "GameOverScene",
                             !.transitioning = FALSE,
                             !.spaceArmed = TRUE,
                             !.presses = 0, !.restarts = 0, !.starts = 0]
    /\ UNCHANGED gameState
    /\ SessionFrame

\* The Play Again button: its handler stays registered while the scene shows.
button_click(ok) ==
    /\ app.pc = "on" /\ app.scene = "GameOverScene"
    /\ app.presses < MaxPresses
    /\ LET st == initOnInteraction(Here, ok)
       IN /\ gameState' = st.gs
          /\ app' = restartGame([st.a EXCEPT !.presses = @ + 1])
    /\ SessionFrame

\* keydown of space: registered with once().
keydown_SPACE(ok) ==
    /\ app.pc = "on" /\ app.scene = "GameOverScene" /\ app.spaceArmed
    /\ app.presses < MaxPresses
    /\ LET st == initOnInteraction(Here, ok)
       IN /\ gameState' = st.gs
          /\ app' = restartGame([st.a EXCEPT !.presses = @ + 1,
                                             !.spaceArmed = FALSE])
    /\ SessionFrame

\* camerafadeoutcomplete: scene.start('GameScene'), whose create() resets
\* gameState.
camerafadeoutcomplete ==
    /\ app.pc = "on"
    /\ \E t \in Due("fadeout") :
          app' = [app EXCEPT !.timers = @ \ {t},
                             !.scene = "GameScene",
                             !.spaceArmed = FALSE,
                             !.starts = @ + 1]
    /\ gameState' = GameScene_create(gameState)
    /\ SessionFrame

\* Time passes when no callback is due.
session_tick ==
    /\ app.pc = "on" /\ app.timers # {}
    /\ \A t \in app.timers : t.left > 0
    /\ app' = [app EXCEPT !.timers = {[t EXCEPT !.left = @ - StepMs] : t \in @}]
    /\ UNCHANGED gameState
    /\ SessionFrame

SessionNext ==
    \/ \E ok \in BOOLEAN : window_interaction(ok)
    \/ \E ok \in BOOLEAN : window_keydown_M(ok)
    \/ scene_collectFragment
    \/ scene_triggerGameOver
    \/ \E ok \in BOOLEAN : timeout_start(ok)
    \/ timeout_MUSIC_GAMEOVER
    \/ timeout_MUSIC_GAMEPLAY
    \/ delayed_gameover
    \/ \E ok \in BOOLEAN : button_click(ok)
    \/ \E ok \in BOOLEAN : keydown_SPACE(ok)
    \/ camerafadeoutcomplete
    \/ session_tick

SpecSession == SessionInit /\ [][SessionNext]_vars

\* C36: bestScore is at least score and score equals fragmentsCollected in
\* every reachable state, and no step (addScore, reset or any other)
\* decreases bestScore.
C36_BestScore ==
    /\ [](gameState.pc = "on" =>
             /\ gameState.bestScore >= gameState.score
             /\ gameState.score = gameState.fragmentsCollected)
    /\ [][gameState.pc = "on" => gameState'.bestScore >= gameState.bestScore]_vars

\* C36 witness: a restart has reset the score of a play that scored, and the
\* new play has scored less than the best.
C36_Witness ==
    /\ gameState.pc = "on" /\ app.scene = "GameScene" /\ app.starts = 1
    /\ gameState.bestScore = 2 /\ gameState.score = 1
    /\ gameState.fragmentsCollected = 1

C33_SilentWhileMuted ==
    (app.pc = "on" /\ (gameState.isMuted \/ app.stopped)) =>
        app.currentMusic = "null"

\* C34: once the player has muted with the M key, isMuted stays true until
\* the player presses M again, and no pattern scheduled by a restart starts
\* in between.
C34_MutePersists ==
    (app.pc = "on" /\ app.playerMuted) =>
        gameState.isMuted /\ ~app.restartStarted

====
